---- MODULE Spec2Model ----
(***************************************************************************)
(* State-machine model of the libretro Vulkan presentation adapter         *)
(* (PresentWindow, MasterSemaphoreLibRetro and the process-wide host       *)
(* interface pointer vulkan_intf).                                         *)
(*                                                                         *)
(* Handles of Vulkan objects are positive integers, Null is the null       *)
(* handle.  Every operation of the adapter is one action; the calls it     *)
(* makes on the device, the host and the window are appended to `trace`,   *)
(* which holds the calls of the most recent operation only.                *)
(***************************************************************************)
EXTENDS Integers, Sequences, FiniteSets, TLC

(* ------------------------------ bounds --------------------------------- *)

\* largest width and largest height a layout or a resize request may carry
MaxWidth == 2
MaxHeight == 1
\* largest sync index the host reports
MaxSync == 2
\* largest tick / signal value handed to the semaphore
MaxTick == 3
\* the queue_index the host's interface structs report
HostQueueIndex == 1
\* largest number of things a host device lacks at once (missing extensions,
\* unloaded function pointers, unsupported features, failing queries, null
\* handles)
MaxDefects == 2
\* resolution of the tracker's floats: the number of values told apart
\* between one whole number and the next
Fraction == 1000
\* number of deflections told apart between the stick's centre and its rim
StickLevels == 4
\* largest value of the speed-level setting tried (the levels named are 1 .. 9)
MaxSpeedLevel == 10
\* width of the small frame buffers a cursor is drawn into; they are two rows
\* less high than wide
MaxBuffer == 12

(* --------------------------- program constants ------------------------- *)

\* const u32 frame_count = 2 in CreateFrameResources
frame_count == 2
\* a null handle / null pointer
Null == 0
\* what a held handle reads as once its object has been destroyed: the code
\* compares handles with null only, so a destroyed object's handle stands for
\* any stale value, and a later allocation is never mistaken for it
Dangling == 9
\* the nullptr Frame* (returned by GetRenderFrame on an empty pool)
NoFrame == -1
\* initial value of MasterSemaphore::current_tick
InitialTick == 1

Widths == 0 .. MaxWidth
Heights == 0 .. MaxHeight
SyncIndices == 0 .. MaxSync
Ticks == 0 .. MaxTick
\* the interface structs the host hands out: the one of the first context
\* reset and the one it swaps in later (a fullscreen toggle)
IntfIds == {1, 2}

\* the fields of retro_hw_render_interface_vulkan the adapter tests or calls
CallbackFields == {"lock_queue", "unlock_queue", "wait_sync_index", "get_sync_index", "set_image"}
IntfFields == CallbackFields \cup {"handle"}
\* the sets of non-null fields the host's interface struct may have when an
\* operation that reads the fields in `read` runs: all, or all but one of them
HostFieldSets(read) == {IntfFields} \cup {IntfFields \ {f} : f \in read}

\* VK_IMAGE_LAYOUT_SHADER_READ_ONLY_OPTIMAL / VK_IMAGE_LAYOUT_UNDEFINED
LayoutShaderReadOnly == "SHADER_READ_ONLY_OPTIMAL"
LayoutUndefined == "UNDEFINED"

\* the location of the member PresentWindow::persistent_libretro_image
PersistentImageAddr == "this->persistent_libretro_image"
\* the location of a struct local to one Present call
StackImageAddr == "stack:Present"
NoAddr == "nullptr"

VARIABLES
    host_device,    \* what the host's device lacks: a set of defects, see HostDefects
    instance,       \* the capability flags of the LibRetroVKInstance
    host_intf,      \* interface GetHWRenderInterface yields now (Null: it fails)
    vulkan_intf,    \* the process-wide interface pointer of the adapter
    queue_family_index, \* instance.GetGraphicsQueueFamilyIndex()
    status,         \* lifetime of the PresentWindow / of the process
    pw,             \* the fields of the PresentWindow
    device,         \* live objects of the foreign device, allocation counters
    gpu_tick,       \* MasterSemaphore::gpu_tick
    current_tick,   \* MasterSemaphore::current_tick
    tracker,        \* the members of the MouseTracker
    settings,       \* LibRetro::settings, the members the tracker reads
    pixels,         \* the frame's RGBA8888 buffer the cursor is drawn into
    waits,          \* the calls of Wait in progress, one per calling thread
    trace,          \* calls made by the most recent operation, in order
    op              \* the most recent operation, its arguments and result

vars == <<host_device, instance, host_intf, vulkan_intf, queue_family_index, status, pw,
          device, gpu_tick, current_tick, tracker, settings, pixels, waits, trace, op>>

(* ------------------------------ helpers -------------------------------- *)

\* one call made by an operation
Ev(call, obj, a, b) == [call |-> call, obj |-> obj, a |-> a, b |-> b, ptr |-> NoAddr]

Max(a, b) == IF a >= b THEN a ELSE b

Calls(tr, name) == {i \in 1 .. Len(tr) : tr[i].call = name}
CountCalls(tr, name) == Cardinality(Calls(tr, name))

\* handle of the object made for slot i (0-based) of frame pool generation g
FrameHandle(g, i) == (g - 1) * frame_count + i + 1

\* the generation after g: its handles differ from those of g, the only pool
\* whose handles anything still holds
NextGen(g) == IF g = 1 THEN 2 ELSE 1

\* a default-constructed PresentWindow (before the constructor body runs)
EmptyWindow ==
    [output_image |-> Null, output_image_view |-> Null, output_allocation |-> Null,
     output_width |-> 0, output_height |-> 0, output_view_create_info |-> Null,
     frame_pool |-> <<>>, current_frame_index |-> 0,
     command_pool |-> Null, present_renderpass |-> Null,
     persistent_libretro_image |->
        [image_view |-> Null, image_layout |-> LayoutUndefined, create_info |-> Null]]

EmptyDevice ==
    [images |-> {}, views |-> {}, pool_gen |-> 0,
     semaphores |-> {}, fences |-> {}, signaled |-> {}, framebuffers |-> {},
     cmdbufs |-> {}]

NoOp ==
    [name |-> "none", fields |-> IntfFields, frame |-> NoFrame, width |-> 0, height |-> 0,
     tick |-> 0, sync |-> 0, resolved |-> TRUE, wait |-> Null, signal |-> Null,
     ret |-> NoFrame, outcome |-> "none", repeat |-> FALSE, result |-> "none",
     buttons |-> {}, args |-> <<>>]

\* the machine an operation runs on: the window, the device, the interface
\* pointer, the calls made so far and how the operation has ended so far
\* ("ok", "throw", "crash")
Machine(w, d, intf) ==
    [pw |-> w, dev |-> d, intf |-> intf, tr |-> <<>>, outcome |-> "ok", ret |-> NoFrame]

Call(m, call, obj, a, b) == [m EXCEPT !.tr = Append(@, Ev(call, obj, a, b))]

\* the handle a successful image allocation returns: the least one not live
FreshImage(m) ==
    LET free == (1 .. Cardinality(m.dev.images) + 1) \ m.dev.images
    IN CHOOSE h \in free : \A g \in free : h <= g

Stale(held, h) == IF held = h THEN Dangling ELSE held

\* view h has been destroyed: every copy of the handle left behind is stale
InvalidateView(m, h) ==
    [m EXCEPT !.pw.frame_pool =
                 [i \in 1 .. Len(@) |-> [@[i] EXCEPT !.image_view = Stale(@, h)]],
              !.pw.persistent_libretro_image.image_view = Stale(@, h)]

\* image h has been destroyed: every copy of the handle left behind is stale
InvalidateImage(m, h) ==
    [m EXCEPT !.pw.frame_pool =
                 [i \in 1 .. Len(@) |-> [@[i] EXCEPT !.image = Stale(@, h)]],
              !.pw.output_view_create_info = Stale(@, h),
              !.pw.persistent_libretro_image.create_info = Stale(@, h)]

(* ------------------- PresentWindow: output texture --------------------- *)

\* DestroyOutputTexture that destroys view and image and resets the dimensions
\* but leaves output_image and output_allocation as they were
DestroyOutputTextureKeepHandles(m) ==
    IF m.pw.output_image = Null
    THEN m
    ELSE LET view == m.pw.output_image_view
             m1 == IF view # Null
                   THEN [InvalidateView(Call(m, "destroyImageView", view, 0, 0), view)
                            EXCEPT !.dev.views = @ \ {view},
                                   !.pw.output_image_view = Null]
                   ELSE m
             m2 == IF m1.pw.output_allocation # Null
                   THEN [Call(m1, "vmaDestroyImage", m1.pw.output_image, 0, 0)
                            EXCEPT !.dev.images = @ \ {m1.pw.output_image}]
                   ELSE m1
         IN [m2 EXCEPT !.pw.output_width = 0, !.pw.output_height = 0]

DestroyOutputTexture(m) ==
    IF m.pw.output_image = Null
    THEN m
    ELSE LET view == m.pw.output_image_view
             m1 == IF view # Null
                   THEN [InvalidateView(Call(m, "destroyImageView", view, 0, 0), view)
                            EXCEPT !.dev.views = @ \ {view},
                                   !.pw.output_image_view = Null]
                   ELSE m
             m2 == IF m1.pw.output_allocation # Null
                   THEN [InvalidateImage(Call(m1, "vmaDestroyImage", m1.pw.output_image,
                                              0, 0), m1.pw.output_image)
                            EXCEPT !.dev.images = @ \ {m1.pw.output_image},
                                   !.pw.output_allocation = Null]
                   ELSE m1
         IN [m2 EXCEPT !.pw.output_image = Null,
                       !.pw.output_width = 0,
                       !.pw.output_height = 0]

\* the tail of CreateOutputTexture: the dimensions are stored, then the image
\* is allocated (alloc_ok: vmaCreateImage returns VK_SUCCESS) and its view made
AllocateOutputTexture(m, width, height, alloc_ok) ==
    LET img == IF alloc_ok THEN FreshImage(m) ELSE Null
        m1 == [Call(m, "vmaCreateImage", img, width, height) EXCEPT
                  !.pw.output_width = width,
                  !.pw.output_height = height]
    IN IF ~alloc_ok
       THEN [m1 EXCEPT !.pw.output_allocation = Null, !.outcome = "throw"]
       ELSE [Call(m1, "createImageView", img, 0, 0) EXCEPT
                !.dev.images = @ \cup {img},
                !.dev.views = @ \cup {img},
                !.pw.output_allocation = img,
                !.pw.output_image = img,
                !.pw.output_view_create_info = img,
                !.pw.output_image_view = img]

\* CreateOutputTexture without the "already created with correct dimensions"
\* early return
CreateOutputTextureNoSkip(m, width, height, alloc_ok) ==
    IF width = 0 \/ height = 0
    THEN Call(m, "LOG_ERROR", 0, width, height)
    ELSE LET m1 == IF m.pw.output_image # Null /\
                      (m.pw.output_width # width \/ m.pw.output_height # height)
                   THEN DestroyOutputTexture(m)
                   ELSE m
         IN AllocateOutputTexture(m1, width, height, alloc_ok)

\* CreateOutputTexture that allocates the new image while the one of other
\* dimensions is still there
CreateOutputTextureKeepOld(m, width, height, alloc_ok) ==
    IF width = 0 \/ height = 0
    THEN Call(m, "LOG_ERROR", 0, width, height)
    ELSE IF m.pw.output_image # Null /\ m.pw.output_width = width /\
            m.pw.output_height = height
         THEN m
         ELSE AllocateOutputTexture(m, width, height, alloc_ok)

CreateOutputTexture(m, width, height, alloc_ok) ==
    IF width = 0 \/ height = 0
    THEN Call(m, "LOG_ERROR", 0, width, height)
    ELSE LET m1 == IF m.pw.output_image # Null /\
                      (m.pw.output_width # width \/ m.pw.output_height # height)
                   THEN DestroyOutputTexture(m)
                   ELSE m
         IN IF m1.pw.output_image # Null /\ m1.pw.output_width = width /\
               m1.pw.output_height = height
            THEN m1
            ELSE AllocateOutputTexture(m1, width, height, alloc_ok)

(* ------------------- PresentWindow: frame pool ------------------------- *)

\* the loop of DestroyFrameResources over frame_pool[i .. ]
RECURSIVE DestroyFrames(_, _)
DestroyFrames(m, i) ==
    IF i > Len(m.pw.frame_pool)
    THEN m
    ELSE LET frame == m.pw.frame_pool[i]
             m1 == IF frame.framebuffer # Null
                   THEN [Call(m, "destroyFramebuffer", frame.framebuffer, 0, 0) EXCEPT
                            !.dev.framebuffers = @ \ {frame.framebuffer}]
                   ELSE m
             m2 == IF frame.render_ready # Null
                   THEN [Call(m1, "destroySemaphore", frame.render_ready, 0, 0) EXCEPT
                            !.dev.semaphores = @ \ {frame.render_ready}]
                   ELSE m1
             m3 == IF frame.present_done # Null
                   THEN [Call(m2, "destroyFence", frame.present_done, 0, 0) EXCEPT
                            !.dev.fences = @ \ {frame.present_done},
                            !.dev.signaled = @ \ {frame.present_done}]
                   ELSE m2
         IN DestroyFrames(m3, i + 1)

DestroyFrameResources(m) ==
    IF m.pw.frame_pool = <<>>
    THEN m
    ELSE [DestroyFrames(m, 1) EXCEPT !.pw.frame_pool = <<>>,
                                     !.pw.current_frame_index = 0]

\* the loop of CreateFrameResources initialising slot i (0-based) .. frame_count - 1
\* of pool generation g
RECURSIVE InitFrames(_, _, _)
InitFrames(m, g, i) ==
    IF i >= frame_count
    THEN m
    ELSE LET h == FrameHandle(g, i)
             frame == [width |-> m.pw.output_width,
                       height |-> m.pw.output_height,
                       image |-> m.pw.output_image,
                       image_view |-> m.pw.output_image_view,
                       allocation |-> Null,
                       cmdbuf |-> h,
                       render_ready |-> h,
                       present_done |-> h,
                       framebuffer |-> h]
             m1 == Call(m, "createSemaphore", h, 0, 0)
             m2 == Call(m1, "createFence", h, 1, 0)
             m3 == Call(m2, "createFramebuffer", h, m.pw.output_image_view, 0)
         IN InitFrames([m3 EXCEPT !.pw.frame_pool = Append(@, frame),
                                  !.dev.semaphores = @ \cup {h},
                                  !.dev.fences = @ \cup {h},
                                  !.dev.signaled = @ \cup {h},
                                  !.dev.framebuffers = @ \cup {h}],
                       g, i + 1)

\* CreateFrameResources that clears the pool without destroying what its
\* frames hold
CreateFrameResourcesNoDestroy(m) ==
    LET m1 == [m EXCEPT !.pw.frame_pool = <<>>, !.pw.current_frame_index = 0]
        g == NextGen(m1.dev.pool_gen)
        m2 == [Call(m1, "allocateCommandBuffers", FrameHandle(g, 0), frame_count, 0) EXCEPT
                  !.dev.pool_gen = g,
                  !.dev.cmdbufs = {FrameHandle(g, i) : i \in 0 .. frame_count - 1}]
    IN InitFrames(m2, g, 0)

CreateFrameResources(m) ==
    LET m1 == DestroyFrameResources(m)
        g == NextGen(m1.dev.pool_gen)
        m2 == [Call(m1, "allocateCommandBuffers", FrameHandle(g, 0), frame_count, 0) EXCEPT
                  !.dev.pool_gen = g,
                  !.dev.cmdbufs = {FrameHandle(g, i) : i \in 0 .. frame_count - 1}]
    IN InitFrames(m2, g, 0)

(* ------------------- PresentWindow: operations ------------------------- *)

\* PresentWindow::PresentWindow with the layout's width and height
Construct(m, width, height, alloc_ok) ==
    LET m1 == [Call(m, "createCommandPool", 1, 0, 0) EXCEPT !.pw.command_pool = 1]
        m2 == [Call(m1, "createRenderPass", 1, 0, 0) EXCEPT !.pw.present_renderpass = 1]
        m3 == CreateOutputTexture(m2, width, height, alloc_ok)
    IN IF m3.outcome # "ok" THEN m3 ELSE CreateFrameResources(m3)

\* GetRenderFrame with a local round-robin choice: the host's sync index is
\* fetched but the slot returned is the one after current_frame_index
GetRenderFrameRoundRobin(m, host, fields, sync) ==
    IF m.pw.frame_pool = <<>>
    THEN [Call(m, "LOG_ERROR", 0, 0, 0) EXCEPT !.ret = NoFrame]
    ELSE IF host = Null
    THEN [Call(m, "LOG_ERROR", 0, 0, 0) EXCEPT !.ret = m.pw.current_frame_index]
    ELSE LET m1 == [m EXCEPT !.intf = host]
             next == (m1.pw.current_frame_index + 1) % Len(m1.pw.frame_pool)
         IN IF "get_sync_index" \in fields /\ "handle" \in fields
            THEN [Call(m1, "get_sync_index", m1.intf, sync, 0) EXCEPT
                     !.ret = next, !.pw.current_frame_index = next]
            ELSE [m1 EXCEPT !.ret = m1.pw.current_frame_index]

\* a GetRenderFrame that asks the host for its interface and goes on with
\* the pointer it already had
GetRenderFrameKeepsInterface(m, host, fields, sync) ==
    IF m.pw.frame_pool = <<>>
    THEN [Call(m, "LOG_ERROR", 0, 0, 0) EXCEPT !.ret = NoFrame]
    ELSE IF host = Null
    THEN [Call(m, "LOG_ERROR", 0, 0, 0) EXCEPT !.ret = m.pw.current_frame_index]
    ELSE LET m2 == IF m.intf # Null /\ "wait_sync_index" \in fields /\ "handle" \in fields
                   THEN Call(m, "wait_sync_index", m.intf, 0, 0)
                   ELSE m
         IN IF m2.intf # Null /\ "get_sync_index" \in fields /\ "handle" \in fields
            THEN [Call(m2, "get_sync_index", m2.intf, sync, 0) EXCEPT
                     !.ret = sync % Len(m2.pw.frame_pool)]
            ELSE [m2 EXCEPT !.ret = m2.pw.current_frame_index]

\* host is the interface GetHWRenderInterface yields (Null: the call fails),
\* fields the non-null fields of that interface, sync what get_sync_index returns
GetRenderFrame(m, host, fields, sync) ==
    IF m.pw.frame_pool = <<>>
    THEN [Call(m, "LOG_ERROR", 0, 0, 0) EXCEPT !.ret = NoFrame]
    ELSE IF host = Null
    THEN [Call(m, "LOG_ERROR", 0, 0, 0) EXCEPT !.ret = m.pw.current_frame_index]
    ELSE LET m1 == IF host # m.intf THEN [m EXCEPT !.intf = host] ELSE m
             m2 == IF m1.intf # Null /\ "wait_sync_index" \in fields /\ "handle" \in fields
                   THEN Call(m1, "wait_sync_index", m1.intf, 0, 0)
                   ELSE m1
         IN IF m2.intf # Null /\ "get_sync_index" \in fields /\ "handle" \in fields
            THEN [Call(m2, "get_sync_index", m2.intf, sync, 0) EXCEPT
                     !.ret = sync % Len(m2.pw.frame_pool)]
            ELSE [m2 EXCEPT !.ret = m2.pw.current_frame_index]

\* RecreateFrame without the "no change needed" early return
RecreateFrameNoSkip(m, frame, width, height, alloc_ok) ==
    IF frame = NoFrame
    THEN Call(m, "LOG_ERROR", 0, 0, 0)
    ELSE LET f == m.pw.frame_pool[frame + 1]
             m1 == Call(m, "waitForFences", f.present_done, 1, 0)
             m2 == CreateOutputTexture(m1, width, height, alloc_ok)
         IN IF m2.outcome # "ok" THEN m2 ELSE CreateFrameResources(m2)

\* RecreateFrame that recreates the output texture and keeps the frame pool
RecreateFrameKeepPool(m, frame, width, height, alloc_ok) ==
    IF frame = NoFrame
    THEN Call(m, "LOG_ERROR", 0, 0, 0)
    ELSE LET f == m.pw.frame_pool[frame + 1]
         IN IF f.width = width /\ f.height = height
            THEN m
            ELSE CreateOutputTexture(Call(m, "waitForFences", f.present_done, 1, 0),
                                     width, height, alloc_ok)

\* RecreateFrame that resets the frame's fence after waiting for it
RecreateFrameResetsFence(m, frame, width, height, alloc_ok) ==
    IF frame = NoFrame
    THEN Call(m, "LOG_ERROR", 0, 0, 0)
    ELSE LET f == m.pw.frame_pool[frame + 1]
         IN IF f.width = width /\ f.height = height
            THEN m
            ELSE LET m1 == Call(m, "waitForFences", f.present_done, 1, 0)
                     m1r == [Call(m1, "resetFences", f.present_done, 1, 0) EXCEPT
                                !.dev.signaled = @ \ {f.present_done}]
                     m2 == CreateOutputTexture(m1r, width, height, alloc_ok)
                 IN IF m2.outcome # "ok" THEN m2 ELSE CreateFrameResources(m2)

\* frame is a slot of the pool (0-based) or NoFrame
RecreateFrame(m, frame, width, height, alloc_ok) ==
    IF frame = NoFrame
    THEN Call(m, "LOG_ERROR", 0, 0, 0)
    ELSE LET f == m.pw.frame_pool[frame + 1]
         IN IF f.width = width /\ f.height = height
            THEN m
            ELSE LET m1 == Call(m, "waitForFences", f.present_done, 1, 0)
                     m2 == CreateOutputTexture(m1, width, height, alloc_ok)
                 IN IF m2.outcome # "ok" THEN m2 ELSE CreateFrameResources(m2)

\* vulkan_intf->set_image(handle, image, num_semaphores, semaphores,
\* src_queue_family): obj is the interface, a the semaphore count, b the queue
\* family, ptr the location of the image struct
SetImage(m, image, num_semaphores, src_queue_family) ==
    [m EXCEPT !.tr = Append(@, [Ev("set_image", m.intf, num_semaphores, src_queue_family)
                                   EXCEPT !.ptr = image])]

\* the set_image call and the SwapBuffers hook of Present.  The call is made
\* whether or not the field is null; through a null field it is undefined
\* behaviour, and ub is what the build makes of it: the process dies
\* ("crash") or the call comes back ("return")
PresentSubmit(m, fields, qfi, ub) ==
    LET m1 == SetImage(m, PersistentImageAddr, 0, qfi)
    IN IF "set_image" \notin fields /\ ub = "crash"
       THEN [m1 EXCEPT !.outcome = "crash"]
       ELSE Call(m1, "SwapBuffers", 0, 0, 0)

\* Present handing the host a struct local to the call
PresentOnStack(m, frame, fields, qfi, ub) ==
    IF frame = NoFrame \/ m.intf = Null
    THEN Call(m, "LOG_ERROR", 0, 0, 0)
    ELSE LET m1 == SetImage(m, StackImageAddr, 0, qfi)
         IN IF "set_image" \notin fields /\ ub = "crash"
            THEN [m1 EXCEPT !.outcome = "crash"]
            ELSE Call(m1, "SwapBuffers", 0, 0, 0)

Present(m, frame, fields, qfi, ub) ==
    IF frame = NoFrame
    THEN Call(m, "LOG_ERROR", 0, 0, 0)
    ELSE IF m.intf = Null
    THEN Call(m, "LOG_ERROR", 0, 0, 0)
    ELSE LET f == m.pw.frame_pool[frame + 1]
             m1 == [m EXCEPT !.pw.persistent_libretro_image =
                        [image_view |-> f.image_view,
                         image_layout |-> LayoutShaderReadOnly,
                         create_info |-> m.pw.output_view_create_info]]
         IN PresentSubmit(m1, fields, qfi, ub)

WaitPresent(m) ==
    IF m.pw.frame_pool = <<>>
    THEN m
    ELSE Call(m, "waitForFences", m.pw.frame_pool[1].present_done, Len(m.pw.frame_pool), 0)

\* a destructor that destroys the frame resources before the device is idle
DestructBeforeIdle(m) ==
    LET m1 == WaitPresent(m)
        m2 == DestroyFrameResources(m1)
        m3 == Call(m2, "waitIdle", 0, 0, 0)
        m4 == DestroyOutputTexture(m3)
        m5 == IF m4.pw.command_pool # Null
              THEN Call(m4, "destroyCommandPool", m4.pw.command_pool, 0, 0)
              ELSE m4
    IN IF m5.pw.present_renderpass # Null
       THEN Call(m5, "destroyRenderPass", m5.pw.present_renderpass, 0, 0)
       ELSE m5

\* PresentWindow::~PresentWindow
Destruct(m) ==
    LET m1 == WaitPresent(m)
        m2 == Call(m1, "waitIdle", 0, 0, 0)
        m3 == DestroyFrameResources(m2)
        m4 == DestroyOutputTexture(m3)
        m5 == IF m4.pw.command_pool # Null
              THEN Call(m4, "destroyCommandPool", m4.pw.command_pool, 0, 0)
              ELSE m4
    IN IF m5.pw.present_renderpass # Null
       THEN Call(m5, "destroyRenderPass", m5.pw.present_renderpass, 0, 0)
       ELSE m5

(* ------------------- LibRetroVKInstance -------------------------------- *)

\* the capability flags DetectExtensionSupport sets, with the extension each
\* one stands for
TrackedExtensions ==
    [timeline_semaphores |-> "VK_KHR_timeline_semaphore",
     extended_dynamic_state |-> "VK_EXT_extended_dynamic_state",
     custom_border_color |-> "VK_EXT_custom_border_color",
     index_type_uint8 |-> "VK_EXT_index_type_uint8",
     fragment_shader_interlock |-> "VK_EXT_fragment_shader_interlock",
     image_format_list |-> "VK_KHR_image_format_list",
     pipeline_creation_cache_control |-> "VK_EXT_pipeline_creation_cache_control",
     fragment_shader_barycentric |-> "VK_KHR_fragment_shader_barycentric",
     shader_stencil_export |-> "VK_EXT_shader_stencil_export",
     external_memory_host |-> "VK_EXT_external_memory_host"]

Flags == DOMAIN TrackedExtensions

\* the dispatcher entries the constructor tests before it keeps a flag
RequiredPointers(flag) ==
    CASE flag = "timeline_semaphores" -> {"vkGetSemaphoreCounterValueKHR"}
      [] flag = "extended_dynamic_state" ->
            {"vkCmdSetCullModeEXT", "vkCmdSetDepthTestEnableEXT",
             "vkCmdSetDepthWriteEnableEXT", "vkCmdSetFrontFaceEXT"}
      [] OTHER -> {}

AllPointers == UNION {RequiredPointers(f) : f \in Flags}

\* everything a host device may lack: an extension it does not enumerate, a
\* dispatcher entry that is null, and the other things the constructor tests
HostDefects ==
    {<<"ext", TrackedExtensions[f]>> : f \in Flags}
    \cup {<<"ptr", p>> : p \in AllPointers}
    \cup {<<"host", d>> : d \in {"gpu_null", "queue_null", "no_timeline_feature",
                                  "features_query_fails", "driver_query_fails",
                                  "memory_query_fails", "moltenvk"}}

\* a host device without defects
FullHost == {}

\* the hosts with at most n defects
RECURSIVE HostsUpTo(_)
HostsUpTo(n) ==
    IF n = 0
    THEN {FullHost}
    ELSE LET smaller == HostsUpTo(n - 1)
         IN smaller \cup {h \cup {d} : h \in smaller, d \in HostDefects}

Hosts == HostsUpTo(MaxDefects)

\* the set S of extensions enumerateDeviceExtensionProperties reports
Enumerated(h) == {TrackedExtensions[f] : f \in Flags} \ {d[2] : d \in {x \in h : x[1] = "ext"}}
\* the function-pointer availability F: the non-null dispatcher entries
Loaded(h) == AllPointers \ {d[2] : d \in {x \in h : x[1] = "ptr"}}
Lacks(h, d) == <<"host", d>> \in h

\* an instance before its constructor has run
NoInstance == [flags |-> [f \in Flags |-> FALSE], driver_id |-> "none"]

\* the driver id InitializeVendorInfo stores: {} when the query throws
InitializeVendorInfo(h) ==
    IF Lacks(h, "driver_query_fails") THEN "none"
    ELSE IF Lacks(h, "moltenvk") THEN "MoltenVK"
    ELSE "other"

\* DetectExtensionSupport with the custom-border-color flag read from the
\* index-type-uint8 extension (a copied line)
DetectExtensionSupportCopied(h, driver_id) ==
    LET has_extension(name) == name \in Enumerated(h)
        flags == [f \in Flags |-> has_extension(TrackedExtensions[f])]
        copied == [flags EXCEPT !.custom_border_color = flags.index_type_uint8]
    IN IF driver_id = "MoltenVK"
       THEN [copied EXCEPT !.fragment_shader_barycentric = FALSE]
       ELSE copied

DetectExtensionSupport(h, driver_id) ==
    LET has_extension(name) == name \in Enumerated(h)
        flags == [f \in Flags |-> has_extension(TrackedExtensions[f])]
    IN IF driver_id = "MoltenVK"
       THEN [flags EXCEPT !.fragment_shader_barycentric = FALSE]
       ELSE flags

\* function-pointer tests that look at vkCmdSetCullModeEXT only for the
\* extended dynamic state
ValidateFunctionPointersCullOnly(flags, h) ==
    [flags EXCEPT
        !.timeline_semaphores =
            @ /\ RequiredPointers("timeline_semaphores") \subseteq Loaded(h),
        !.extended_dynamic_state = @ /\ "vkCmdSetCullModeEXT" \in Loaded(h)]

\* the function-pointer tests: a flag whose pointers are not all loaded is
\* cleared (the constructor of the later revision makes the same tests after
\* the base class has probed the device)
ValidateFunctionPointers(flags, h) ==
    [flags EXCEPT
        !.timeline_semaphores =
            @ /\ RequiredPointers("timeline_semaphores") \subseteq Loaded(h),
        !.extended_dynamic_state =
            @ /\ RequiredPointers("extended_dynamic_state") \subseteq Loaded(h)]

DetectDeviceCapabilities(flags, h) ==
    LET f1 == IF flags.timeline_semaphores /\ ~Lacks(h, "features_query_fails")
              THEN [flags EXCEPT !.timeline_semaphores = ~Lacks(h, "no_timeline_feature")]
              ELSE flags
        f2 == ValidateFunctionPointers(f1, h)
    IN IF f2.external_memory_host /\ Lacks(h, "memory_query_fails")
       THEN [f2 EXCEPT !.external_memory_host = FALSE]
       ELSE f2

\* the calls the constructor makes on its way: the queries on the physical
\* device, then (with a graphics queue) the dispatcher's initialization with
\* the host's device, the capability detection, and one function-pointer
\* test for each of the two flags the detection left set
ProbeCalls == <<Ev("getProperties", 0, 0, 0),
                Ev("enumerateDeviceExtensionProperties", 0, 0, 0)>>
DispatcherInit(intf) == Ev("dispatcher.init.device", intf, 0, 0)
ValidationCalls(flags) ==
    (IF flags.extended_dynamic_state
     THEN <<Ev("ValidateFunctionPointers", "extended_dynamic_state", 0, 0)>>
     ELSE <<>>)
    \o (IF flags.timeline_semaphores
        THEN <<Ev("ValidateFunctionPointers", "timeline_semaphores", 0, 0)>>
        ELSE <<>>)

\* a constructor that does not test the graphics queue
LibRetroVKInstanceNoQueueCheck(intf, h) ==
    IF intf = Null \/ Lacks(h, "gpu_null")
    THEN [outcome |-> "throw", inst |-> NoInstance, tr |-> <<>>]
    ELSE LET driver_id == InitializeVendorInfo(h)
             flags == DetectDeviceCapabilities(DetectExtensionSupport(h, driver_id), h)
         IN [outcome |-> "ok",
             inst |-> [flags |-> ValidateFunctionPointers(flags, h),
                       driver_id |-> driver_id],
             tr |-> ProbeCalls \o <<DispatcherInit(intf), Ev("CreateDevice", 0, 0, 0)>>
                    \o ValidationCalls(flags)]

\* a constructor that initializes the dispatcher with the device after the
\* capability detection
LibRetroVKInstanceInitLate(intf, h) ==
    IF intf = Null \/ Lacks(h, "gpu_null")
    THEN [outcome |-> "throw", inst |-> NoInstance, tr |-> <<>>]
    ELSE IF Lacks(h, "queue_null")
    THEN [outcome |-> "throw", inst |-> NoInstance, tr |-> ProbeCalls]
    ELSE LET driver_id == InitializeVendorInfo(h)
             flags == DetectDeviceCapabilities(DetectExtensionSupport(h, driver_id), h)
         IN [outcome |-> "ok",
             inst |-> [flags |-> ValidateFunctionPointers(flags, h),
                       driver_id |-> driver_id],
             tr |-> ProbeCalls \o <<Ev("CreateDevice", 0, 0, 0), DispatcherInit(intf)>>
                    \o ValidationCalls(flags)]

\* LibRetroVKInstance::LibRetroVKInstance on interface pointer intf and host h:
\* how it ends, the instance it leaves and the calls it made
LibRetroVKInstance(intf, h) ==
    IF intf = Null \/ Lacks(h, "gpu_null")
    THEN [outcome |-> "throw", inst |-> NoInstance, tr |-> <<>>]
    ELSE IF Lacks(h, "queue_null")
    THEN [outcome |-> "throw", inst |-> NoInstance, tr |-> ProbeCalls]
    ELSE LET driver_id == InitializeVendorInfo(h)
             flags == DetectDeviceCapabilities(DetectExtensionSupport(h, driver_id), h)
         IN [outcome |-> "ok",
             inst |-> [flags |-> ValidateFunctionPointers(flags, h),
                       driver_id |-> driver_id],
             tr |-> ProbeCalls \o <<DispatcherInit(intf), Ev("CreateDevice", 0, 0, 0)>>
                    \o ValidationCalls(flags)]

(* ------------------- MasterSemaphoreLibRetro --------------------------- *)

\* a semaphore operation's result: the new gpu_tick, its calls, how it ended
SemResult(gt, tr, outcome) == [gpu_tick |-> gt, tr |-> tr, outcome |-> outcome]

Refresh(gt, ct) == SemResult(ct, <<>>, "ok")

\* a Wait that stores the tick it was given
WaitStoresTick(gt, tick) == SemResult(tick, <<>>, "ok")

Wait(gt, tick) == SemResult(Max(gt, tick), <<>>, "ok")

\* the threads that call Wait at the same time
Threads == {1, 2}

\* a thread that has not called Wait
NotCalled == [pc |-> "idle", tick |-> 0, loaded |-> 0]

\* the first step of Wait(tick): gpu_tick.load(acquire), kept in a temporary
WaitLoad(gt, tick) == [pc |-> "loaded", tick |-> tick, loaded |-> gt]

\* the second step of Wait: gpu_tick.store(std::max(loaded, tick), release)
WaitStore(w) == SemResult(Max(w.loaded, w.tick), <<>>, "ok")

\* an exit path that leaves the queue locked
UnlockSkipped(tr, intf, fields) == tr

\* the unlock_queue call every exit path of the try block makes
Unlock(tr, intf, fields) ==
    IF "unlock_queue" \in fields THEN Append(tr, Ev("unlock_queue", intf, 0, 0)) ELSE tr

\* a SubmitWork that records the tick before it submits
SubmitWorkStoresFirst(gt, intf, fields, wait, signal, signal_value, result) ==
    IF intf = Null
    THEN SemResult(gt, <<Ev("LOG_ERROR", 0, 0, 0)>>, "ok")
    ELSE LET t1 == <<Ev("cmdbuf.end", 0, 0, 0)>>
             t2 == IF "lock_queue" \in fields
                   THEN Append(t1, Ev("lock_queue", intf, 0, 0))
                   ELSE t1
             t3 == Append(t2, Ev("queue.submit", 0, 0, 0))
         IN CASE result = "ok" -> SemResult(signal_value, Unlock(t3, intf, fields), "ok")
              [] result = "device_lost" ->
                    SemResult(signal_value, Unlock(t3, intf, fields), "crash")
              [] OTHER -> SemResult(signal_value, Unlock(t3, intf, fields), "throw")

\* a SubmitWork that hands the caller's semaphores on to the queue
SubmitWorkWithSemaphores(gt, intf, fields, wait, signal, signal_value, result) ==
    IF intf = Null
    THEN SemResult(gt, <<Ev("LOG_ERROR", 0, 0, 0)>>, "ok")
    ELSE LET t1 == <<Ev("cmdbuf.end", 0, 0, 0)>>
             t2 == IF "lock_queue" \in fields
                   THEN Append(t1, Ev("lock_queue", intf, 0, 0))
                   ELSE t1
             t3 == Append(t2, Ev("queue.submit", 0, IF wait = Null THEN 0 ELSE 1,
                                 IF signal = Null THEN 0 ELSE 1))
         IN CASE result = "ok" -> SemResult(signal_value, Unlock(t3, intf, fields), "ok")
              [] result = "device_lost" -> SemResult(gt, Unlock(t3, intf, fields), "crash")
              [] OTHER -> SemResult(gt, Unlock(t3, intf, fields), "throw")

\* wait and signal are the caller's semaphores, result is what queue.submit does:
\* "ok", "device_lost" (vk::DeviceLostError) or "error" (any other exception).
\* The queue.submit call carries waitSemaphoreCount and signalSemaphoreCount.
SubmitWork(gt, intf, fields, wait, signal, signal_value, result) ==
    IF intf = Null
    THEN SemResult(gt, <<Ev("LOG_ERROR", 0, 0, 0)>>, "ok")
    ELSE LET t1 == <<Ev("cmdbuf.end", 0, 0, 0)>>
             t2 == IF "lock_queue" \in fields
                   THEN Append(t1, Ev("lock_queue", intf, 0, 0))
                   ELSE t1
             t3 == Append(t2, Ev("queue.submit", 0, 0, 0))
         IN CASE result = "ok" -> SemResult(signal_value, Unlock(t3, intf, fields), "ok")
              [] result = "device_lost" -> SemResult(gt, Unlock(t3, intf, fields), "crash")
              [] OTHER -> SemResult(gt, Unlock(t3, intf, fields), "throw")

(* ------------------- MouseTracker -------------------------------------- *)

\* The tracker's floats (x, y, projectedX, projectedY, the stick values) are
\* fixed-point numbers here: an integer n stands for n / Fraction. Every
\* division truncates toward zero, as static_cast<int> does.

\* INT16_MAX, the divisor of the stick axes
INT16_MAX == 32767
\* 0x7fff, the nominal extent of the absolute pointer axes
PointerExtent == 32767

TruncDiv(a, b) == IF a >= 0 THEN a \div b ELSE -((-a) \div b)

Min(a, b) == IF a <= b THEN a ELSE b

Abs(a) == IF a >= 0 THEN a ELSE -a

\* a whole number of pixels as a float
Px(n) == n * Fraction

\* the largest r in lo .. hi - 1 with r * r <= n, by bisection
RECURSIVE IsqrtBetween(_, _, _)
IsqrtBetween(n, lo, hi) ==
    IF hi - lo <= 1 THEN lo
    ELSE LET mid == (lo + hi) \div 2
         IN IF mid * mid <= n THEN IsqrtBetween(n, mid, hi)
            ELSE IsqrtBetween(n, lo, mid)

\* std::sqrt on a fixed-point number: Isqrt(a * a) = a
Isqrt(n) == IsqrtBetween(n, 0, 2 * Fraction + 1)

\* std::pow(base, exponent) for a whole exponent
RECURSIVE Pow(_, _)
Pow(base, exponent) ==
    IF exponent = 0 THEN Fraction
    ELSE TruncDiv(base * Pow(base, exponent - 1), Fraction)

\* Common::Rectangle<unsigned>::GetWidth / GetHeight
GetWidth(rect) == Abs(rect.right - rect.left)
GetHeight(rect) == Abs(rect.bottom - rect.top)

\* a Layout::FramebufferLayout: the buffer's width and height, the touch
\* screen's rectangle, the left edge of the right eye's bottom screen
FramebufferLayout(width, height, left, top, right, bottom, eye) ==
    [width |-> width, height |-> height,
     bottom_screen |-> [left |-> left, top |-> top, right |-> right, bottom |-> bottom],
     bottom_screen_right_eye |-> eye]

\* static_cast<int>((pointer + 0x7fff) / (float)(0x7fff * 2) * bufferSize)
Rescale(pointer, bufferSize) ==
    TruncDiv((pointer + PointerExtent) * bufferSize, PointerExtent * 2)

IsWithinTouchscreen(layout, render_3d_mode, framebuffer_x, framebuffer_y) ==
    LET bs == layout.bottom_screen
        rows == framebuffer_y >= bs.top /\ framebuffer_y < bs.bottom
    IN IF render_3d_mode \in {"SideBySide", "ReverseSideBySide"}
       THEN rows /\ \/ /\ framebuffer_x >= bs.left \div 2
                       /\ framebuffer_x < bs.right \div 2
                    \/ /\ framebuffer_x >= (bs.left \div 2) + (layout.width \div 2)
                       /\ framebuffer_x < (bs.right \div 2) + (layout.width \div 2)
       ELSE IF render_3d_mode = "CardboardVR"
       THEN rows /\ \/ /\ framebuffer_x >= bs.left
                       /\ framebuffer_x < bs.right
                    \/ /\ framebuffer_x >= layout.bottom_screen_right_eye
                                             + (layout.width \div 2)
                       /\ framebuffer_x < layout.bottom_screen_right_eye
                                            + GetWidth(bs) + (layout.width \div 2)
       ELSE rows /\ framebuffer_x >= bs.left /\ framebuffer_x < bs.right

\* MouseTracker::OnMouseMove
OnMouseMove(t, deltaX, deltaY) == [t EXCEPT !.x = @ + deltaX, !.y = @ + deltaY]

\* a Restrict that keeps the position above the minimum only
RestrictFromBelow(t, minX, minY, maxX, maxY) ==
    [t EXCEPT !.x = Max(minX, @), !.y = Max(minY, @)]

\* MouseTracker::Restrict
Restrict(t, minX, minY, maxX, maxY) ==
    [t EXCEPT !.x = Min(Max(minX, @), maxX), !.y = Min(Max(minY, @), maxY)]

\* one of the two absolute-pointer blocks of Update: the mouse's and the
\* touch pointer's are the same statements
\* a pointer path that does not compare the reading with the remembered one
PointerMoveAlways(t, s, bufferWidth, bufferHeight, layout, pointerX, pointerY) ==
    LET bs == layout.bottom_screen
        newX == Rescale(pointerX, bufferWidth)
        newY == Rescale(pointerY, bufferHeight)
    IN IF pointerX # 0 \/ pointerY # 0
       THEN LET seen == [t EXCEPT !.lastMouseX = newX, !.lastMouseY = newY]
            IN IF IsWithinTouchscreen(layout, s.render_3d, newX, newY)
               THEN [seen EXCEPT !.x = Px(Max(bs.left, Min(newX, bs.right)) - bs.left),
                                 !.y = Px(Max(bs.top, Min(newY, bs.bottom)) - bs.top)]
               ELSE seen
       ELSE t

PointerMove(t, s, bufferWidth, bufferHeight, layout, pointerX, pointerY) ==
    LET bs == layout.bottom_screen
        newX == Rescale(pointerX, bufferWidth)
        newY == Rescale(pointerY, bufferHeight)
    IN IF (pointerX # 0 \/ pointerY # 0)
          /\ (newX # t.lastMouseX \/ newY # t.lastMouseY)
       THEN LET seen == [t EXCEPT !.lastMouseX = newX, !.lastMouseY = newY]
            IN IF IsWithinTouchscreen(layout, s.render_3d, newX, newY)
               THEN [seen EXCEPT !.x = Px(Max(bs.left, Min(newX, bs.right)) - bs.left),
                                 !.y = Px(Max(bs.top, Min(newY, bs.bottom)) - bs.top)]
               ELSE seen
       ELSE t

\* a speed table with the default's entry at every level
RealSpeedDefault(maxSpeed) == (8 * Fraction) \div 10

\* the switch on settings.maxspeed
RealSpeed(maxSpeed) ==
    CASE maxSpeed = 1 -> (4 * Fraction) \div 10
      [] maxSpeed = 2 -> (6 * Fraction) \div 10
      [] maxSpeed = 3 -> (8 * Fraction) \div 10
      [] maxSpeed = 4 -> (10 * Fraction) \div 10
      [] maxSpeed = 5 -> (12 * Fraction) \div 10
      [] maxSpeed = 6 -> (14 * Fraction) \div 10
      [] maxSpeed = 7 -> (16 * Fraction) \div 10
      [] maxSpeed = 8 -> (18 * Fraction) \div 10
      [] maxSpeed = 9 -> (20 * Fraction) \div 10
      [] OTHER -> (8 * Fraction) \div 10

\* (float)CheckInput(...) / INT16_MAX
JoystickNorm(raw) == TruncDiv(raw * Fraction, INT16_MAX)

\* std::sqrt(joystickNormX * joystickNormX + joystickNormY * joystickNormY)
RadialLength(joystickNormX, joystickNormY) ==
    Isqrt(joystickNormX * joystickNormX + joystickNormY * joystickNormY)

\* a stick block without a deadzone: the curve applied to the radial length
JoystickScaledNoDeadzone(s, joystickNormX, joystickNormY) ==
    LET radialLength == RadialLength(joystickNormX, joystickNormY)
    IN IF radialLength > 0
       THEN LET curvedLength == Pow(Min(Fraction, radialLength), s.responsecurve)
            IN <<TruncDiv(TruncDiv(joystickNormX * Fraction, radialLength)
                          * curvedLength, Fraction),
                 TruncDiv(TruncDiv(joystickNormY * Fraction, radialLength)
                          * curvedLength, Fraction)>>
       ELSE <<0, 0>>

\* the deadzone and the response curve of Update's stick block: the scaled
\* stick vector for the normalised one. A deadzone of 1 divides by zero; the
\* quotient is +infinity there (radialLength > deadzone), which std::min
\* turns into 1.
JoystickScaled(s, joystickNormX, joystickNormY) ==
    LET radialLength == RadialLength(joystickNormX, joystickNormY)
    IN IF radialLength > s.deadzone
       THEN LET dirX == TruncDiv(joystickNormX * Fraction, radialLength)
                dirY == TruncDiv(joystickNormY * Fraction, radialLength)
                saturated ==
                    IF s.deadzone = Fraction THEN Fraction
                    ELSE Min(Fraction, TruncDiv((radialLength - s.deadzone) * Fraction,
                                                Fraction - s.deadzone))
                curvedLength == Pow(saturated, s.responsecurve)
                finalLength == IF s.speedup_enabled
                               THEN TruncDiv(curvedLength * s.speedupratio, Fraction)
                               ELSE curvedLength
            IN <<TruncDiv(dirX * finalLength, Fraction),
                 TruncDiv(dirY * finalLength, Fraction)>>
       ELSE <<0, 0>>

\* the arguments Update's stick block hands to OnMouseMove for the raw axis
\* values analogX, analogY
AnalogDelta(s, layout, analogX, analogY) ==
    LET heightSpeed == TruncDiv(TruncDiv(Px(GetHeight(layout.bottom_screen)), 20)
                                * RealSpeed(s.maxspeed), Fraction)
        joystickNormX == JoystickNorm(analogX)
        joystickNormY == JoystickNorm(analogY)
        scaled == JoystickScaled(s, joystickNormX, joystickNormY)
    IN <<TruncDiv(scaled[1] * heightSpeed, Fraction),
         TruncDiv(scaled[2] * heightSpeed, Fraction)>>

\* the tail of Update: the projection of the tracked position onto the
\* buffer
Project(t, layout) ==
    LET bs == layout.bottom_screen
        unitX == TruncDiv(t.x, GetWidth(bs))
        unitY == TruncDiv(t.y, GetHeight(bs))
    IN [t EXCEPT !.renderRatio = TruncDiv(Px(GetHeight(bs)), 30),
                 !.projectedX = Px(bs.left) + unitX * GetWidth(bs),
                 !.projectedY = Px(bs.top) + unitY * GetHeight(bs)]

\* a press test that asks every source, enabled or not
PressedAnySource(s, in) == in.buttons # {}

\* the local `state` of Update: each enabled source ORs its button in
Pressed(s, in) ==
    \/ s.mouse_touchscreen /\ "mouse_left" \in in.buttons
    \/ s.touch_touchscreen /\ "pointer_pressed" \in in.buttons
    \/ s.analog_touch_enabled /\ "r2" \in in.buttons

\* MouseTracker::Update. `in` is what LibRetro::CheckInput returns during
\* this call: buttons (the set of those held), pointerX, pointerY, analogX,
\* analogY. The result is the tracker and the calls made.
Update(t, s, bufferWidth, bufferHeight, layout, in) ==
    LET bs == layout.bottom_screen
        mouse == IF s.mouse_touchscreen
                 THEN PointerMove(t, s, bufferWidth, bufferHeight, layout,
                                  in.pointerX, in.pointerY)
                 ELSE t
        touch == IF s.touch_touchscreen
                 THEN PointerMove(mouse, s, bufferWidth, bufferHeight, layout,
                                  in.pointerX, in.pointerY)
                 ELSE mouse
        delta == AnalogDelta(s, layout, in.analogX, in.analogY)
        moved == IF s.analog_touch_enabled
                 THEN OnMouseMove(touch, delta[1], delta[2])
                 ELSE touch
        state == Pressed(s, in)
        restricted == Restrict(moved, 0, 0, Px(GetWidth(bs)), Px(GetHeight(bs)))
        projected == Project(restricted, layout)
    IN [tracker |-> [projected EXCEPT !.isPressed = state,
                                      !.framebuffer_layout = layout],
        tr |-> (IF s.mouse_touchscreen \/ s.touch_touchscreen
                THEN <<Ev("CheckInput.pointer", 0, in.pointerX, in.pointerY)>>
                ELSE <<>>)
               \o (IF s.analog_touch_enabled
                   THEN <<Ev("CheckInput.analog", 0, in.analogX, in.analogY),
                          Ev("OnMouseMove", 0, delta[1], delta[2])>>
                   ELSE <<>>)
               \o <<Ev("Restrict", 0, Px(GetWidth(bs)), Px(GetHeight(bs)))>>]

\* MouseTracker::GetPressedPosition
GetPressedPosition(t) ==
    <<TruncDiv(t.projectedX, Fraction), TruncDiv(t.projectedY, Fraction)>>

(* cursor rendering *)

\* a pixel is the signed 32-bit integer with the bits of the uint32_t, so
\* that pixel ^ 0xFFFFFFFF, the complement of every bit, is -pixel - 1
XorWhite(pixel) == 0 - pixel - 1

\* bars drawn without the test of each pixel against the buffer
BarWritesUnchecked(left, right, top, bottom, bufferWidth, bufferHeight) ==
    LET w == Max(0, right - left)
        h == Max(0, bottom - top)
        at(k) == <<left + ((k - 1) % w), top + ((k - 1) \div w)>>
    IN [k \in 1 .. w * h |->
           Ev("pixels.xor", at(k)[2] * bufferWidth + at(k)[1], at(k)[1], at(k)[2])]

\* one bar of the cursor: the writes of the loops
\*   for (y = top; y < bottom; ++y) for (x = left; x < right; ++x)
\* in order, each as the call pixels[y * bufferWidth + x] ^= cursorColor;
\* a pixel outside the buffer is skipped
BarWrites(left, right, top, bottom, bufferWidth, bufferHeight) ==
    LET w == Max(0, right - left)
        h == Max(0, bottom - top)
        at(k) == <<left + ((k - 1) % w), top + ((k - 1) \div w)>>
        all == [k \in 1 .. w * h |-> at(k)]
        kept == SelectSeq(all, LAMBDA c : /\ c[1] >= 0 /\ c[1] < bufferWidth
                                          /\ c[2] >= 0 /\ c[2] < bufferHeight)
    IN [k \in 1 .. Len(kept) |->
           Ev("pixels.xor", kept[k][2] * bufferWidth + kept[k][1], kept[k][1], kept[k][2])]

\* the buffer after the writes of tr; buf is a sequence whose element
\* pixelIndex + 1 is pixels[pixelIndex]. A pixel written n times has had
\* every bit flipped n times.
ApplyWrites(buf, tr) ==
    LET written == {tr[k].obj : k \in 1 .. Len(tr)}
    IN [i \in 1 .. Len(buf) |->
           IF i - 1 \in written /\
              Cardinality({k \in 1 .. Len(tr) : tr[k].obj = i - 1}) % 2 = 1
           THEN XorWhite(buf[i])
           ELSE buf[i]]

\* SoftwareCursorRenderer::Render. buf is the memory framebuffer_data points
\* to, data is FALSE for a null framebuffer_data. The result is the buffer
\* and the writes made.
SoftwareRender(buf, data, bufferWidth, bufferHeight, projectedX, projectedY, renderRatio, layout) ==
    IF ~data
    THEN [pixels |-> buf, tr |-> <<>>]
    ELSE LET bs == layout.bottom_screen
             centerX == TruncDiv(projectedX, Fraction)
             centerY == TruncDiv(projectedY, Fraction)
             radius == TruncDiv(renderRatio, Fraction)
             thin == TruncDiv(radius, 5)
             vertical == BarWrites(Max(centerX - thin, bs.left),
                                   Min(centerX + thin, bs.right),
                                   Max(centerY - radius, bs.top),
                                   Min(centerY + radius, bs.bottom),
                                   bufferWidth, bufferHeight)
             horizontal == BarWrites(Max(centerX - radius, bs.left),
                                     Min(centerX + radius, bs.right),
                                     Max(centerY - thin, bs.top),
                                     Min(centerY + thin, bs.bottom),
                                     bufferWidth, bufferHeight)
         IN [pixels |-> ApplyWrites(buf, vertical \o horizontal),
             tr |-> vertical \o horizontal]

\* MouseTracker::Render: nothing with render_touchscreen off or without a
\* renderer; the Vulkan renderer is a placeholder that draws nothing
TrackerRender(t, s, buf, data, bufferWidth, bufferHeight) ==
    IF ~s.render_touchscreen \/ t.cursor_renderer # "Software"
    THEN [pixels |-> buf, tr |-> <<>>]
    ELSE SoftwareRender(buf, data, bufferWidth, bufferHeight, t.projectedX,
                        t.projectedY, t.renderRatio, t.framebuffer_layout)

\* the layouts the frontend hands to Update: the two screens stacked in a
\* 400x240 buffer, and the touch screen alone at 320x240
StackedLayout == FramebufferLayout(400, 240, 0, 120, 320, 240, 0)
TouchOnlyLayout == FramebufferLayout(320, 240, 0, 0, 320, 240, 0)
Layouts == {StackedLayout, TouchOnlyLayout}

\* the layout member before the first Update
NoLayout == FramebufferLayout(0, 0, 0, 0, 0, 0, 0)

\* LibRetro::settings, the members Update reads
CoreSettings(mouse, touch, analog, render_3d, deadzone, maxspeed, responsecurve, speedup) ==
    [mouse_touchscreen |-> mouse, touch_touchscreen |-> touch,
     analog_touch_enabled |-> analog, render_3d |-> render_3d,
     deadzone |-> deadzone, maxspeed |-> maxspeed, responsecurve |-> responsecurve,
     speedup_enabled |-> speedup, speedupratio |-> (5 * Fraction) \div 2,
     render_touchscreen |-> TRUE]

\* the deadzone the struct is built with (float deadzone = 1.f) and the core
\* options a user picks: pointer-only and stick-only set-ups, and all three
\* sources at once
DefaultDeadzone == Fraction
Deadzones == {0, Fraction \div 4, DefaultDeadzone}
SettingsChoices ==
    {CoreSettings(TRUE, FALSE, FALSE, mode, DefaultDeadzone, 0, 1, FALSE) :
        mode \in {"Off", "SideBySide", "CardboardVR"}}
    \cup {CoreSettings(FALSE, TRUE, FALSE, "Off", DefaultDeadzone, 0, 1, FALSE)}
    \cup {CoreSettings(FALSE, FALSE, TRUE, "Off", d, 9, 1, FALSE) : d \in Deadzones}
    \cup {CoreSettings(FALSE, FALSE, TRUE, "Off", 0, 0, 2, TRUE)}
    \cup {CoreSettings(TRUE, TRUE, TRUE, "Off", DefaultDeadzone, 9, 1, FALSE)}

\* what CheckInput reports in one Update
PointerReadings == {<<0, 0>>, <<PointerExtent, PointerExtent>>,
                    <<-PointerExtent, -PointerExtent>>, <<0, PointerExtent \div 2>>}
StickReadings == {<<0, 0>>, <<0, INT16_MAX>>, <<INT16_MAX, 0>>, <<0, -INT16_MAX - 1>>}
ButtonReadings == {{"mouse_left"}, {"pointer_pressed"}, {"r2"}}
Reading(b, p, a) ==
    [buttons |-> b, pointerX |-> p[1], pointerY |-> p[2], analogX |-> a[1],
     analogY |-> a[2]]
\* a frame's readings: the pointer moves, or the stick does, or a button is
\* held, or the pointer and the stick move at once
Inputs ==
    {Reading({}, p, <<0, 0>>) : p \in PointerReadings}
    \cup {Reading({}, <<0, 0>>, a) : a \in StickReadings}
    \cup {Reading(b, <<0, 0>>, <<0, 0>>) : b \in ButtonReadings}
    \cup {Reading({"mouse_left"}, <<PointerExtent, PointerExtent>>, <<0, INT16_MAX>>)}

\* the stick-only set-ups over every speed level, with no deadzone, a linear
\* response and no speed-up
SpeedLevels == 0 .. MaxSpeedLevel
SpeedSettings ==
    {CoreSettings(FALSE, FALSE, TRUE, "Off", 0, level, 1, FALSE) : level \in SpeedLevels}
\* the stick at rest, pushed fully down and pushed fully up
StickInputs ==
    {Reading({}, <<0, 0>>, a) : a \in {<<0, 0>>, <<0, INT16_MAX>>, <<0, -INT16_MAX>>}}

\* set-ups with a pointer source and the stick both enabled, no deadzone
MixedSettings ==
    {CoreSettings(TRUE, FALSE, TRUE, mode, 0, 9, 1, FALSE) :
        mode \in {"Off", "SideBySide"}}
    \cup {CoreSettings(TRUE, TRUE, TRUE, "Off", 0, 9, 1, FALSE)}
\* the pointer reporting nothing, a point on the touch screen, a point of the
\* top screen and the buffer's far corner, while the stick rests or is pushed
\* fully down
MixedInputs ==
    {Reading({}, p, a) :
        p \in {<<0, 0>>, <<0, PointerExtent \div 2>>, <<0, -(PointerExtent \div 2)>>,
               <<PointerExtent, PointerExtent>>},
        a \in {<<0, 0>>, <<0, INT16_MAX>>}}

\* every combination of held buttons, with the pointer and the stick at rest
Buttons == {"mouse_left", "pointer_pressed", "r2"}
ButtonInputs == {Reading(b, <<0, 0>>, <<0, 0>>) : b \in SUBSET Buttons}

\* the cursor renderer the constructor makes: the software one, the Vulkan
\* placeholder, or none when the graphics API's renderer is not compiled in
Renderers == {"Software", "Vulkan", "none"}
\* the frames a cursor is drawn over: opaque black (0xFF000000) and a grey
\* ramp (0x00010101 times the pixel index), n pixels each
FrameIds == {0, 1}
FramePixels(id, n) == [i \in 1 .. n |-> IF id = 0 THEN 0 - 16777216 ELSE (i - 1) * 65793]
\* target rectangles of a small buffer: one inside it and one that extends
\* past its right and bottom edges
CursorLayouts ==
    {FramebufferLayout(MaxBuffer, MaxBuffer - 2, 2, 1, MaxBuffer - 2, MaxBuffer - 3, 0),
     FramebufferLayout(MaxBuffer, MaxBuffer - 2, 0, 0, MaxBuffer + 4, MaxBuffer + 4, 0)}
\* projected positions: a corner, inside, on the last column, past the buffer
CursorCentres ==
    {<<0, 0>>, <<Px(5) + Fraction \div 2, Px(5)>>, <<Px(MaxBuffer - 1), Px(4)>>,
     <<Px(MaxBuffer + 2), Px(MaxBuffer)>>}
\* render ratios: bars of no width, the smallest cross, a large one
CursorRatios == {Px(4), Px(5) + Fraction \div 2, Px(10)}

\* the tracker as its constructor leaves it: no member is initialised, so x,
\* y and the deduplication memory hold whatever the storage held
Garbage == {0, 0 - Px(1), Px(1000)}
NewTrackers ==
    {[x |-> g, y |-> g, lastMouseX |-> g, lastMouseY |-> g, projectedX |-> 0,
      projectedY |-> 0, renderRatio |-> 0, isPressed |-> FALSE,
      framebuffer_layout |-> NoLayout, cursor_renderer |-> "Vulkan"] : g \in Garbage}

(* ------------------------------ actions -------------------------------- *)

\* the machine the next operation starts on
Start == Machine(pw, device, vulkan_intf)

\* the slots a caller may hold a Frame* to, and the null Frame*
FrameArgs == {NoFrame} \cup (0 .. Len(pw.frame_pool) - 1)

Alive == status # "crashed"

\* commit what operation o did on machine m
Commit(m, o) ==
    /\ pw' = m.pw
    /\ device' = m.dev
    /\ vulkan_intf' = m.intf
    /\ trace' = m.tr
    /\ op' = [o EXCEPT !.outcome = m.outcome, !.ret = m.ret]

SemUnchanged == UNCHANGED <<gpu_tick, current_tick>>
InputUnchanged == UNCHANGED <<tracker, settings, pixels, waits>>
HostUnchanged ==
    /\ UNCHANGED <<host_device, instance, host_intf, queue_family_index>>
    /\ InputUnchanged
WindowUnchanged == UNCHANGED <<pw, device>>

\* the frontend swaps the interface it hands out, or stops handing one out
HostSwapInterface ==
    /\ Alive
    /\ \E i \in (IntfIds \cup {Null}) \ {host_intf} : host_intf' = i
    /\ UNCHANGED <<host_device, instance, vulkan_intf, queue_family_index, status, pw,
                   device, gpu_tick, current_tick, trace, op>>
    /\ InputUnchanged

\* the frontend's context_reset callback
VulkanResetContext ==
    /\ status = "none"
    /\ host_intf # Null
    /\ vulkan_intf' = host_intf
    /\ trace' = <<Ev("dispatcher.init", host_intf, 0, 0)>>
    /\ op' = [NoOp EXCEPT !.name = "VulkanResetContext", !.outcome = "ok"]
    /\ UNCHANGED <<host_device, instance, host_intf, queue_family_index, status, pw,
                   device, gpu_tick, current_tick>>
    /\ InputUnchanged

\* LibRetroVKInstance::LibRetroVKInstance
InstanceStep ==
    /\ status = "none"
    /\ LET r == LibRetroVKInstance(vulkan_intf, host_device)
       IN /\ instance' = r.inst
          /\ queue_family_index' = IF r.outcome = "ok" THEN HostQueueIndex
                                   ELSE queue_family_index
          /\ status' = IF r.outcome = "ok" THEN "instance" ELSE "failed"
          /\ op' = [NoOp EXCEPT !.name = "Instance", !.outcome = r.outcome]
          /\ trace' = r.tr
    /\ UNCHANGED <<host_device, host_intf, vulkan_intf, pw, device, gpu_tick,
                   current_tick>>
    /\ InputUnchanged

ConstructStep ==
    /\ status = "instance"
    /\ \E width \in Widths, height \in Heights, alloc_ok \in BOOLEAN :
          LET m == Construct(Start, width, height, alloc_ok)
          IN /\ Commit(m, [NoOp EXCEPT !.name = "Construct", !.width = width,
                                       !.height = height])
             /\ status' = IF m.outcome = "ok" THEN "ready" ELSE "failed"
    /\ SemUnchanged /\ HostUnchanged

GetRenderFrameStep ==
    /\ status = "ready"
    /\ \E sync \in SyncIndices,
          fields \in HostFieldSets({"wait_sync_index", "get_sync_index", "handle"}) :
          LET m == GetRenderFrame(Start, host_intf, fields, sync)
          IN Commit(m, [NoOp EXCEPT !.name = "GetRenderFrame", !.fields = fields,
                                    !.sync = sync, !.resolved = (host_intf # Null)])
    /\ UNCHANGED status
    /\ SemUnchanged /\ HostUnchanged

RecreateFrameStep ==
    /\ status = "ready"
    /\ \E frame \in FrameArgs, width \in Widths, height \in Heights, alloc_ok \in BOOLEAN :
          LET m == RecreateFrame(Start, frame, width, height, alloc_ok)
          IN Commit(m, [NoOp EXCEPT !.name = "RecreateFrame", !.frame = frame,
                                    !.width = width, !.height = height])
    /\ UNCHANGED status
    /\ SemUnchanged /\ HostUnchanged

PresentStep ==
    /\ status = "ready"
    /\ \E frame \in FrameArgs, fields \in HostFieldSets({"set_image"}),
          ub \in {"crash", "return"} :
          LET m == Present(Start, frame, fields, queue_family_index, ub)
          IN /\ Commit(m, [NoOp EXCEPT !.name = "Present", !.fields = fields,
                                       !.frame = frame])
             /\ status' = IF m.outcome = "crash" THEN "crashed" ELSE status
    /\ SemUnchanged /\ HostUnchanged

WaitPresentStep ==
    /\ status = "ready"
    /\ Commit(WaitPresent(Start), [NoOp EXCEPT !.name = "WaitPresent"])
    /\ UNCHANGED status
    /\ SemUnchanged /\ HostUnchanged

DestructStep ==
    /\ status = "ready"
    /\ Commit(Destruct(Start), [NoOp EXCEPT !.name = "Destruct"])
    /\ status' = "destroyed"
    /\ SemUnchanged /\ HostUnchanged

\* the private methods, called directly as a unit test of the class does
CreateOutputTextureStep ==
    /\ status = "ready"
    /\ \E width \in Widths, height \in Heights, alloc_ok \in BOOLEAN :
          LET m == CreateOutputTexture(Start, width, height, alloc_ok)
          IN /\ Commit(m, [NoOp EXCEPT !.name = "CreateOutputTexture", !.width = width,
                                       !.height = height])
    /\ UNCHANGED status
    /\ SemUnchanged /\ HostUnchanged

DestroyOutputTextureStep ==
    /\ status = "ready"
    /\ Commit(DestroyOutputTexture(Start),
              [NoOp EXCEPT !.name = "DestroyOutputTexture",
                           !.repeat = (op.name = "DestroyOutputTexture")])
    /\ UNCHANGED status
    /\ SemUnchanged /\ HostUnchanged

CreateFrameResourcesStep ==
    /\ status = "ready"
    /\ LET m == CreateFrameResources(Start)
       IN Commit(m, [NoOp EXCEPT !.name = "CreateFrameResources"])
    /\ UNCHANGED status
    /\ SemUnchanged /\ HostUnchanged

(* semaphore *)

\* commit a semaphore operation's result r
CommitSem(r, o) ==
    /\ gpu_tick' = r.gpu_tick
    /\ trace' = r.tr
    /\ op' = [o EXCEPT !.outcome = r.outcome]
    /\ status' = IF r.outcome = "crash" THEN "crashed" ELSE status
    /\ UNCHANGED <<current_tick, vulkan_intf>>
    /\ WindowUnchanged /\ HostUnchanged

\* MasterSemaphore::NextTick, as the scheduler calls it before each submission
NextTick ==
    /\ Alive
    /\ current_tick < MaxTick
    /\ current_tick' = current_tick + 1
    /\ trace' = <<>>
    /\ op' = [NoOp EXCEPT !.name = "NextTick", !.outcome = "ok"]
    /\ UNCHANGED <<host_device, instance, host_intf, vulkan_intf, queue_family_index,
                   status, pw, device, gpu_tick>>
    /\ InputUnchanged

RefreshStep ==
    /\ Alive
    /\ CommitSem(Refresh(gpu_tick, current_tick), [NoOp EXCEPT !.name = "Refresh"])

WaitStep ==
    /\ Alive
    /\ \E tick \in Ticks :
          CommitSem(Wait(gpu_tick, tick), [NoOp EXCEPT !.name = "Wait", !.tick = tick])

SubmitWorkStep ==
    /\ Alive
    /\ \E wait \in {Null, 1}, signal \in {Null, 1}, signal_value \in Ticks,
          result \in {"ok", "device_lost", "error"},
          fields \in HostFieldSets({"lock_queue", "unlock_queue"}) :
          CommitSem(SubmitWork(gpu_tick, vulkan_intf, fields, wait, signal,
                               signal_value, result),
                    [NoOp EXCEPT !.name = "SubmitWork", !.tick = signal_value,
                                 !.fields = fields, !.result = result,
                                 !.wait = wait, !.signal = signal])

(* pointer tracker *)

\* MouseTracker::Update, as the frontend's run loop calls it once a frame
MouseUpdateStep ==
    /\ Alive
    /\ \E layout \in Layouts, in \in Inputs :
          \* the frontend keeps the layout it handed to the first Update
          /\ tracker.framebuffer_layout \in {NoLayout, layout}
          /\ LET r == Update(tracker, settings, layout.width, layout.height, layout, in)
             IN /\ tracker' = r.tracker
                /\ trace' = r.tr
                /\ op' = [NoOp EXCEPT !.name = "Update", !.width = layout.width,
                                      !.height = layout.height, !.outcome = "ok"]
    /\ UNCHANGED <<host_device, instance, host_intf, vulkan_intf, queue_family_index,
                   status, pw, device, gpu_tick, current_tick, settings, pixels, waits>>

(* ------------------------------- claims -------------------------------- *)

\* the calls of the most recent operation named `name`, in order
Events(name) == SelectSeq(trace, LAMBDA e : e.call = name)

\* C1: after any sequence of Refresh, Wait(tick) and SubmitWork(...,
\* signal_value) calls, with arbitrary arguments and arbitrary advances of
\* current_tick, gpu_tick never decreases from one state to the next.
C1_GpuTickNeverDecreases == [][gpu_tick' >= gpu_tick]_vars

\* C2 as stated: for every host sync index s, when the frame pool is not
\* empty and the host exposes get_sync_index, GetRenderFrame returns the
\* frame record at slot s mod pool size, whatever calls came before.
C2_SlotFromSyncIndex ==
    (op.name = "GetRenderFrame" /\ pw.frame_pool # <<>> /\ op.resolved
        /\ "get_sync_index" \in op.fields)
    => op.ret = op.sync % Len(pw.frame_pool)

\* C2 amended: for every host sync index s, when the frame pool is not empty,
\* the interface is re-resolved, and its get_sync_index field and its handle
\* are both non-null, GetRenderFrame asks the host for s once and returns
\* the frame record at slot s mod pool size, whatever calls came before.
C2_SlotFromSyncIndexWithHandle ==
    (op.name = "GetRenderFrame" /\ pw.frame_pool # <<>> /\ op.resolved
        /\ "get_sync_index" \in op.fields /\ "handle" \in op.fields)
    => /\ op.outcome = "ok"
       /\ Len(Events("get_sync_index")) = 1
       /\ Events("get_sync_index")[1].a = op.sync
       /\ op.ret = op.sync % Len(pw.frame_pool)

\* a GetRenderFrame, on the second interface the host handed out, that
\* picked slot 1 of the 2-slot pool from sync index 1
C2_SlotOneFromSyncOne ==
    /\ op.name = "GetRenderFrame" /\ op.resolved
    /\ "get_sync_index" \in op.fields /\ "handle" \in op.fields
    /\ op.sync = 1 /\ op.ret = 1
    /\ CountCalls(trace, "get_sync_index") = 1
    /\ vulkan_intf = 2
    /\ Len(pw.frame_pool) = frame_count

\* C3: when re-resolution of the host interface fails inside GetRenderFrame
\* and the frame pool is not empty, GetRenderFrame does not crash and returns
\* the frame record the most recent preceding GetRenderFrame call selected
\* (here: the GetRenderFrame that was the operation right before it).
C3_FallbackReturnsLastSelected ==
    [][(op'.name = "GetRenderFrame" /\ ~op'.resolved /\ pw.frame_pool # <<>>
          /\ op.name = "GetRenderFrame")
       => op'.outcome = "ok" /\ op'.ret = op.ret]_vars

\* C4: for every combination of null and non-null optional callback fields
\* (lock_queue, unlock_queue, wait_sync_index, get_sync_index, set_image) on a
\* non-null host interface, no adapter operation invokes a callback whose
\* field is null.
C4_NoNullCallbackInvoked ==
    \A i \in 1 .. Len(trace) :
        trace[i].call \in CallbackFields => trace[i].call \in op.fields

\* the most recent operation asked vmaCreateImage for an image and got none
AllocationFailed(tr) == \E i \in Calls(tr, "vmaCreateImage") : tr[i].obj = Null

\* C5: CreateOutputTexture(width, height) fails fatally, instead of returning
\* normally, whenever width is 0 or height is 0, and whenever the image
\* allocation fails.
C5_ZeroSizeOrFailedAllocationIsFatal ==
    (op.name = "CreateOutputTexture"
        /\ (op.width = 0 \/ op.height = 0 \/ AllocationFailed(trace)))
    => op.outcome # "ok"

\* C6: when an output image of dimensions (w,h) exists, CreateOutputTexture(w,h)
\* destroys nothing, allocates nothing and leaves image, view, allocation and
\* stored dimensions as they were; a call with non-zero (w,h) that finds no
\* image of that size allocates exactly once and leaves an image of that size,
\* so a run of calls with one non-zero (w,h) allocates exactly once.
C6_SameSizeCreateIsNoOp ==
    [][(op'.name = "CreateOutputTexture" /\ op'.width # 0 /\ op'.height # 0)
       => IF pw.output_image # Null /\ pw.output_width = op'.width
                /\ pw.output_height = op'.height
          THEN trace' = <<>> /\ pw' = pw /\ device' = device /\ op'.outcome = "ok"
          ELSE op'.outcome = "ok"
                  => /\ CountCalls(trace', "vmaCreateImage") = 1
                     /\ pw'.output_image # Null
                     /\ pw'.output_width = op'.width
                     /\ pw'.output_height = op'.height]_vars

\* a CreateOutputTexture of non-zero size that made no call at all
C6_SecondCreateMadeNoCall ==
    /\ op.name = "CreateOutputTexture" /\ op.outcome = "ok"
    /\ op.width # 0 /\ op.height # 0
    /\ trace = <<>>
    /\ pw.output_image # Null /\ pw.output_image \in device.images
    /\ pw.output_width = op.width /\ pw.output_height = op.height

\* C7: RecreateFrame(frame, w, h) with frame.width = w and frame.height = h
\* waits on no fence, destroys and creates no texture and no frame resources,
\* and leaves every frame record with the handles it had.
C7_SameSizeRecreateIsNoOp ==
    [][(op'.name = "RecreateFrame" /\ op'.frame # NoFrame
          /\ pw.frame_pool[op'.frame + 1].width = op'.width
          /\ pw.frame_pool[op'.frame + 1].height = op'.height)
       => /\ trace' = <<>>
          /\ op'.outcome = "ok"
          /\ pw'.frame_pool = pw.frame_pool
          /\ pw' = pw
          /\ device' = device]_vars

\* a RecreateFrame on a frame of non-zero size that made no call at all
C7_RecreateMadeNoCall ==
    /\ op.name = "RecreateFrame" /\ op.frame # NoFrame /\ op.outcome = "ok"
    /\ op.width # 0 /\ op.height # 0
    /\ trace = <<>>
    /\ pw.frame_pool[op.frame + 1].width = op.width
    /\ pw.frame_pool[op.frame + 1].height = op.height

TextureCalls == {"destroyImageView", "vmaDestroyImage", "vmaCreateImage", "createImageView"}
PoolCalls == {"destroyFramebuffer", "destroySemaphore", "destroyFence",
              "allocateCommandBuffers", "createSemaphore", "createFence",
              "createFramebuffer"}
CallsIn(tr, names) == {i \in 1 .. Len(tr) : tr[i].call \in names}

\* C8: RecreateFrame(frame, w, h) with non-zero (w,h) different from the
\* frame's dimensions and a successful allocation first waits on that frame's
\* present-done fence, then recreates the output texture, then recreates the
\* whole frame pool; afterwards the output texture is (w,h) and each of the 2
\* frame records has width w, height h and holds the new image and view.
C8_ResizeRecreatesTextureThenPool ==
    [][(op'.name = "RecreateFrame" /\ op'.frame # NoFrame
          /\ op'.width # 0 /\ op'.height # 0
          /\ (pw.frame_pool[op'.frame + 1].width # op'.width
                \/ pw.frame_pool[op'.frame + 1].height # op'.height)
          /\ ~AllocationFailed(trace'))
       => /\ op'.outcome = "ok"
          /\ trace'[1] = Ev("waitForFences", pw.frame_pool[op'.frame + 1].present_done, 1, 0)
          /\ CountCalls(trace', "waitForFences") = 1
          /\ CountCalls(trace', "vmaCreateImage") = 1
          /\ CountCalls(trace', "createImageView") = 1
          /\ CountCalls(trace', "allocateCommandBuffers") = 1
          /\ CountCalls(trace', "createFramebuffer") = frame_count
          /\ \A i \in CallsIn(trace', TextureCalls), j \in CallsIn(trace', PoolCalls) :
                1 < i /\ i < j
          /\ \A k \in 1 .. Len(pw.frame_pool) :
                /\ pw.frame_pool[k].framebuffer \notin device'.framebuffers
                /\ pw.frame_pool[k].present_done \notin device'.fences
                /\ pw.frame_pool[k].render_ready \notin device'.semaphores
          /\ pw'.output_width = op'.width /\ pw'.output_height = op'.height
          /\ pw'.output_image = trace'[CHOOSE i \in Calls(trace', "vmaCreateImage") : TRUE].obj
          /\ pw'.output_image \in device'.images
          /\ pw'.output_image_view \in device'.views
          /\ Len(pw'.frame_pool) = frame_count
          /\ \A k \in 1 .. Len(pw'.frame_pool) :
                /\ pw'.frame_pool[k].width = op'.width
                /\ pw'.frame_pool[k].height = op'.height
                /\ pw'.frame_pool[k].image = pw'.output_image
                /\ pw'.frame_pool[k].image_view = pw'.output_image_view
                /\ pw'.frame_pool[k].framebuffer \in device'.framebuffers]_vars

\* a RecreateFrame that replaced an existing texture by one of another size
C8_ResizedExistingTexture ==
    /\ op.name = "RecreateFrame" /\ op.frame # NoFrame /\ op.outcome = "ok"
    /\ CountCalls(trace, "waitForFences") = 1
    /\ CountCalls(trace, "vmaDestroyImage") = 1
    /\ CountCalls(trace, "allocateCommandBuffers") = 1
    /\ op.width # 0 /\ op.height # 0
    /\ pw.output_width = op.width /\ pw.output_height = op.height

\* C9: across every Present call in the lifetime of one PresentWindow, resizes
\* in between included, the image-descriptor struct handed to set_image is at
\* one and the same adapter-owned location; only its field values change.
C9_SetImageStructAddressStable ==
    \A i \in Calls(trace, "set_image") : trace[i].ptr = PersistentImageAddr

\* a Present, after a resize has replaced the frame pool, that handed the
\* host the view of the frame it was given
C9_PresentAfterResize ==
    /\ op.name = "Present" /\ op.frame # NoFrame /\ op.outcome = "ok"
    /\ "set_image" \in op.fields
    /\ CountCalls(trace, "set_image") = 1
    /\ device.pool_gen = 2
    /\ pw.persistent_libretro_image.image_view = pw.frame_pool[op.frame + 1].image_view
    /\ pw.persistent_libretro_image.image_view \in device.views

\* C10: every Present(frame) with a non-null frame and a non-null host
\* interface calls set_image exactly once, with zero wait semaphores, image
\* layout shader-read-only-optimal and the adapter's graphics queue-family
\* index, and calls the window's SwapBuffers exactly once, after set_image.
C10_PresentCallsSetImageThenSwapBuffers ==
    (op.name = "Present" /\ op.frame # NoFrame /\ vulkan_intf # Null)
    => /\ op.outcome = "ok"
       /\ CountCalls(trace, "set_image") = 1
       /\ \A i \in Calls(trace, "set_image") :
             /\ trace[i].a = 0
             /\ trace[i].b = queue_family_index
             /\ trace[i].obj = vulkan_intf
       /\ pw.persistent_libretro_image.image_layout = LayoutShaderReadOnly
       /\ CountCalls(trace, "SwapBuffers") = 1
       /\ \A i \in Calls(trace, "set_image"), j \in Calls(trace, "SwapBuffers") : i < j

\* C11: DestroyOutputTexture is idempotent: of two calls in a row the first
\* destroys the view and the image of an existing texture exactly once, the
\* second makes no destroy call and leaves the state (null image, null view,
\* empty allocation, dimensions 0x0) unchanged.
C11_DestroyOutputTextureIdempotent ==
    [][(op'.name = "DestroyOutputTexture")
       => /\ op'.outcome = "ok"
          /\ pw'.output_image = Null
          /\ IF pw.output_image # Null
             THEN /\ CountCalls(trace', "destroyImageView") = 1
                  /\ CountCalls(trace', "vmaDestroyImage") = 1
                  /\ pw.output_image \notin device'.images
                  /\ pw.output_image_view \notin device'.views
                  /\ pw'.output_image_view = Null /\ pw'.output_allocation = Null
                  /\ pw'.output_width = 0 /\ pw'.output_height = 0
             ELSE trace' = <<>> /\ pw' = pw /\ device' = device
          /\ op'.repeat => /\ pw.output_image = Null
                           /\ trace' = <<>> /\ pw' = pw /\ device' = device
                           /\ (trace # <<>> =>
                                 /\ pw'.output_image_view = Null
                                 /\ pw'.output_allocation = Null
                                 /\ pw'.output_width = 0 /\ pw'.output_height = 0)]_vars

\* a second DestroyOutputTexture in a row, after a texture had existed, that
\* made no call
C11_SecondDestroyMadeNoCall ==
    /\ op.name = "DestroyOutputTexture" /\ op.repeat /\ op.outcome = "ok"
    /\ trace = <<>>
    /\ pw.output_image = Null /\ pw.output_image_view = Null
    /\ pw.output_allocation = Null
    /\ pw.output_width = 0 /\ pw.output_height = 0
    /\ device.images = {} /\ device.views = {}
    /\ Dangling \in {pw.frame_pool[k].image : k \in 1 .. Len(pw.frame_pool)}

\* the step of the destructor a call belongs to: 1 WaitPresent, 2 device
\* idle-wait, 3 frame resources, 4 output texture, 5 command pool, 6 render pass
DestructRank(call) ==
    CASE call = "waitForFences" -> 1
      [] call = "waitIdle" -> 2
      [] call \in {"destroyFramebuffer", "destroySemaphore", "destroyFence"} -> 3
      [] call \in {"destroyImageView", "vmaDestroyImage"} -> 4
      [] call = "destroyCommandPool" -> 5
      [] call = "destroyRenderPass" -> 6
      [] OTHER -> 0

\* C12: the destructor of PresentWindow performs its steps in exactly this
\* order: WaitPresent, device idle-wait, destroy frame resources, destroy
\* output texture, destroy command pool, destroy render pass; nothing owned is
\* destroyed before both waits have completed.
C12_DestructionOrder ==
    (op.name = "Destruct")
    => /\ op.outcome = "ok"
       /\ \A i \in 1 .. Len(trace) : DestructRank(trace[i].call) # 0
       /\ \A i, j \in 1 .. Len(trace) :
             i < j => DestructRank(trace[i].call) <= DestructRank(trace[j].call)
       /\ CountCalls(trace, "waitForFences") = 1
       /\ CountCalls(trace, "waitIdle") = 1
       /\ trace[1].call = "waitForFences" /\ trace[1].a = frame_count
       /\ trace[2].call = "waitIdle"
       /\ CountCalls(trace, "destroyFramebuffer") = frame_count
       /\ CountCalls(trace, "destroySemaphore") = frame_count
       /\ CountCalls(trace, "destroyFence") = frame_count
       /\ CountCalls(trace, "destroyCommandPool") = 1
       /\ CountCalls(trace, "destroyRenderPass") = 1
       /\ trace[Len(trace)].call = "destroyRenderPass"
       /\ pw.frame_pool = <<>> /\ pw.output_image = Null
       /\ device.framebuffers = {} /\ device.fences = {} /\ device.semaphores = {}
       /\ device.images = {} /\ device.views = {}

\* a destructor run on a window that held an output texture and a frame pool
C12_DestructedWithTexture ==
    /\ op.name = "Destruct" /\ op.outcome = "ok" /\ status = "destroyed"
    /\ CountCalls(trace, "vmaDestroyImage") = 1
    /\ CountCalls(trace, "destroyImageView") = 1
    /\ CountCalls(trace, "destroyFramebuffer") = frame_count

\* instance construction has completed
Constructed == op.name = "Instance" /\ op.outcome = "ok"

\* flag f's extension is in S and all of f's function pointers in F are non-null
ExtensionAndPointers(f) ==
    /\ TrackedExtensions[f] \in Enumerated(host_device)
    /\ RequiredPointers(f) \subseteq Loaded(host_device)

\* what the probe asks of flag f beyond its extension and its pointers
FeatureAndQueries(f) ==
    CASE f = "timeline_semaphores" ->
            Lacks(host_device, "features_query_fails")
            \/ ~Lacks(host_device, "no_timeline_feature")
      [] f = "fragment_shader_barycentric" -> instance.driver_id # "MoltenVK"
      [] f = "external_memory_host" -> ~Lacks(host_device, "memory_query_fails")
      [] OTHER -> TRUE

\* C13 as stated: for every set S of enumerated extensions and every
\* function-pointer availability F, after instance construction each tracked
\* capability flag E is true if and only if E's extension is in S and all of
\* E's function pointers in F are non-null.
C13_FlagIffExtensionAndPointers ==
    Constructed => \A f \in Flags : instance.flags[f] <=> ExtensionAndPointers(f)

\* C13 amended: after instance construction each tracked capability flag E is
\* true if and only if E's extension is in S, all of E's function pointers in
\* F are non-null, and: for timeline semaphores the feature query failed or
\* reported the feature, for fragment-shader-barycentric the driver is not
\* MoltenVK, for external-memory-host the property query succeeded.
C13_FlagIffExtensionPointersAndFeatures ==
    Constructed
    => \A f \in Flags :
          instance.flags[f] <=> (ExtensionAndPointers(f) /\ FeatureAndQueries(f))

\* an instance constructed on a host that lacks one extension and one of the
\* pointers of another flag
C13_ConstructedOnPartialHost ==
    /\ Constructed /\ status = "instance"
    /\ host_device = {<<"ext", "VK_EXT_custom_border_color">>,
                      <<"ptr", "vkGetSemaphoreCounterValueKHR">>}
    /\ ~instance.flags.custom_border_color
    /\ ~instance.flags.timeline_semaphores
    /\ instance.flags.extended_dynamic_state
    /\ instance.flags.index_type_uint8

\* C14: after instance construction the timeline-semaphore flag is true only
\* if its extension was enumerated and vkGetSemaphoreCounterValueKHR is
\* non-null, and the extended-dynamic-state flag is true only if its extension
\* was enumerated and vkCmdSetCullModeEXT, vkCmdSetDepthTestEnableEXT,
\* vkCmdSetDepthWriteEnableEXT and vkCmdSetFrontFaceEXT are all non-null; a
\* missing pointer clears the flag and never fails construction.
C14_FlagOnlyIfPointersLoaded ==
    /\ Constructed
       => /\ instance.flags.timeline_semaphores
             => /\ "VK_KHR_timeline_semaphore" \in Enumerated(host_device)
                /\ "vkGetSemaphoreCounterValueKHR" \in Loaded(host_device)
          /\ instance.flags.extended_dynamic_state
             => /\ "VK_EXT_extended_dynamic_state" \in Enumerated(host_device)
                /\ {"vkCmdSetCullModeEXT", "vkCmdSetDepthTestEnableEXT",
                    "vkCmdSetDepthWriteEnableEXT", "vkCmdSetFrontFaceEXT"}
                      \subseteq Loaded(host_device)
    /\ (op.name = "Instance" /\ vulkan_intf # Null
          /\ ~Lacks(host_device, "gpu_null") /\ ~Lacks(host_device, "queue_null"))
       => op.outcome = "ok"

\* an instance constructed on a host that enumerates the extended dynamic
\* state extension but has not loaded vkCmdSetFrontFaceEXT
C14_DowngradedDynamicState ==
    /\ Constructed /\ status = "instance"
    /\ <<"ptr", "vkCmdSetFrontFaceEXT">> \in host_device
    /\ "VK_EXT_extended_dynamic_state" \in Enumerated(host_device)
    /\ "vkCmdSetCullModeEXT" \in Loaded(host_device)
    /\ ~instance.flags.extended_dynamic_state

Rect == tracker.framebuffer_layout.bottom_screen

\* the most recent operation was an Update on a rectangle at least one pixel
\* wide and high
Updated == op.name = "Update" /\ GetWidth(Rect) >= 1 /\ GetHeight(Rect) >= 1

\* C16: after every MouseTracker::Update call, whatever the pointer and
\* stick readings so far, on a target rectangle of width W >= 1 and height
\* H >= 1 the tracked position satisfies 0 <= x <= W-1 and 0 <= y <= H-1
C16_PositionWithinLastPixel ==
    Updated => /\ 0 <= tracker.x /\ tracker.x <= Px(GetWidth(Rect) - 1)
               /\ 0 <= tracker.y /\ tracker.y <= Px(GetHeight(Rect) - 1)

PointerRead(pointerX, pointerY) ==
    \E i \in 1 .. Len(trace) :
        /\ trace[i].call = "CheckInput.pointer"
        /\ trace[i].a = pointerX /\ trace[i].b = pointerY

\* C18: with bufferWidth 400, bufferHeight 240, target rectangle {left 0,
\* top 120, right 320, bottom 240} and the absolute-pointer path enabled, an
\* Update in which the pointer reports (0,0) rescales it to buffer pixel
\* (200,120) and ends with projected position (160,180), the rectangle's
\* centre
C18_CentrePointerProjectsToCentre ==
    (/\ op.name = "Update"
     /\ tracker.framebuffer_layout = StackedLayout
     /\ op.width = 400 /\ op.height = 240
     /\ settings.mouse_touchscreen \/ settings.touch_touchscreen
     /\ ~settings.analog_touch_enabled
     /\ PointerRead(0, 0))
    => /\ Rescale(0, op.width) = 200
       /\ Rescale(0, op.height) = 120
       /\ tracker.projectedX = Px(160)
       /\ tracker.projectedY = Px(180)

\* the stick reading of the most recent Update and the delta it applied
StickRead == Events("CheckInput.analog")
StickMoved == Events("OnMouseMove")

\* the directions a stick is pushed in, and the reading at `level` of
\* StickLevels steps from the centre to the rim in direction d
Directions == ({-1, 0, 1} \X {-1, 0, 1}) \ {<<0, 0>>}
Deflection(d, level) ==
    <<d[1] * ((level * INT16_MAX) \div StickLevels),
      d[2] * ((level * INT16_MAX) \div StickLevels)>>

\* radial deflection of a raw reading
Radial(reading) == RadialLength(JoystickNorm(reading[1]), JoystickNorm(reading[2]))

\* size of a delta. Along one direction every norm orders the deltas alike;
\* this one needs no square root.
Magnitude(delta) == Abs(delta[1]) + Abs(delta[2])

\* C19: in the stick path of Update every reading with radial deflection
\* r <= deadzone applies a delta of exactly (0,0), and along a fixed
\* direction a larger r > deadzone never applies a smaller delta than a
\* smaller r > deadzone does. The readings are the one the Update read and,
\* once the stick has left its centre, those of every direction and level
\* under the settings and the rectangle of that Update.
C19_DeadzoneThenMonotonic ==
    (Updated /\ settings.analog_touch_enabled) =>
        /\ Radial(<<StickRead[1].a, StickRead[1].b>>) <= settings.deadzone
              => StickMoved[1].a = 0 /\ StickMoved[1].b = 0
        /\ StickMoved[1] = [StickMoved[1] EXCEPT
                              !.a = AnalogDelta(settings, tracker.framebuffer_layout,
                                                StickRead[1].a, StickRead[1].b)[1],
                              !.b = AnalogDelta(settings, tracker.framebuffer_layout,
                                                StickRead[1].a, StickRead[1].b)[2]]
        /\ (StickRead[1].a # 0 \/ StickRead[1].b # 0) =>
           \A d \in Directions, level \in 0 .. StickLevels :
              LET r == Radial(Deflection(d, level))
                  delta == AnalogDelta(settings, tracker.framebuffer_layout,
                                       Deflection(d, level)[1], Deflection(d, level)[2])
              IN /\ r <= settings.deadzone => delta = <<0, 0>>
                 /\ \A weaker \in 0 .. level - 1 :
                       Radial(Deflection(d, weaker)) > settings.deadzone
                       => Magnitude(AnalogDelta(settings, tracker.framebuffer_layout,
                                                Deflection(d, weaker)[1],
                                                Deflection(d, weaker)[2]))
                          <= Magnitude(delta)

\* an Update read a stick pushed to the rim under a deadzone of a quarter
\* and moved the position; under those settings the stick pushed a quarter
\* the same way is within the deadzone and moves nothing, and pushed half
\* way it moves the position less than at the rim
C19_RimBeyondQuarterDeadzone ==
    /\ Updated /\ settings.analog_touch_enabled
    /\ settings.deadzone = Fraction \div 4
    /\ StickRead[1].a = 0 /\ StickRead[1].b = INT16_MAX
    /\ StickMoved[1].b > 0
    /\ Radial(<<0, INT16_MAX \div 4>>) <= settings.deadzone
    /\ AnalogDelta(settings, tracker.framebuffer_layout, 0, INT16_MAX \div 4) = <<0, 0>>
    /\ Radial(<<0, INT16_MAX \div 2>>) > settings.deadzone
    /\ Magnitude(AnalogDelta(settings, tracker.framebuffer_layout, 0, INT16_MAX \div 2))
          < StickMoved[1].b

\* C20: with speed level 9, deadzone 0, response-curve exponent 1, speed-up
\* disabled and a target rectangle of height 240, an Update with the right
\* stick at full deflection on Y (joystick Y = 1.0, X = 0) applies a
\* relative delta, before the clamp, of exactly 24 pixels on Y
\* (height / 20 * 2.0) and 0 on X
C20_FullDeflectionMovesTwentyFourPixels ==
    (/\ Updated /\ settings.analog_touch_enabled
     /\ settings.maxspeed = 9 /\ settings.deadzone = 0
     /\ settings.responsecurve = 1 /\ ~settings.speedup_enabled
     /\ GetHeight(Rect) = 240
     /\ StickRead[1].a = 0 /\ StickRead[1].b = INT16_MAX)
    => /\ JoystickNorm(StickRead[1].b) = Fraction
       /\ StickMoved[1].a = 0
       /\ StickMoved[1].b = Px(24)

\* such an Update has moved a position at the rectangle's top to y = 24
C20_MovedFromTopToTwentyFour ==
    /\ Updated /\ settings.analog_touch_enabled
    /\ settings.maxspeed = 9 /\ settings.deadzone = 0
    /\ settings.responsecurve = 1 /\ ~settings.speedup_enabled
    /\ GetHeight(Rect) = 240
    /\ StickRead[1].a = 0 /\ StickRead[1].b = INT16_MAX
    /\ StickMoved[1].b = Px(24)
    /\ tracker.y = Px(24)
    /\ tracker.projectedY = Px(Rect.top + 24)

\* calls that wait for the GPU
WaitCalls == {"waitForFences", "waitIdle", "waitSemaphores", "wait_sync_index"}

\* C21: a SubmitWork(cmdbuf, wait, signal, signal_value) call that submits
\* successfully builds its submission with zero wait semaphores and zero
\* signal semaphores whatever wait and signal the caller supplied, and on
\* return gpu_tick equals signal_value, no wait for the GPU having been made
C21_SubmitStripsSemaphoresAndCompletesAtOnce ==
    (op.name = "SubmitWork" /\ op.outcome = "ok" /\ Events("queue.submit") # <<>>)
    => /\ Len(Events("queue.submit")) = 1
       /\ Events("queue.submit")[1].a = 0
       /\ Events("queue.submit")[1].b = 0
       /\ gpu_tick = op.tick
       /\ \A i \in 1 .. Len(trace) : trace[i].call \notin WaitCalls

\* a SubmitWork given both a wait and a signal semaphore has submitted and
\* returned
C21_SubmittedWithBothSemaphores ==
    /\ op.name = "SubmitWork" /\ op.outcome = "ok"
    /\ Events("queue.submit") # <<>>
    /\ op.wait # Null /\ op.signal # Null
    /\ gpu_tick = op.tick /\ op.tick > current_tick

\* C22: Wait(tick) never blocks: whenever it is called it returns
\* normally, having made no call at all, and on return gpu_tick equals the
\* larger of its value before the call and tick, so gpu_tick >= tick after
\* every Wait(tick)
C22_WaitReturnsAtOnceWithMax ==
    [][op'.name = "Wait"
       => /\ op'.outcome = "ok"
          /\ trace' = <<>>
          /\ gpu_tick' = Max(gpu_tick, op'.tick)
          /\ gpu_tick' >= op'.tick]_vars

\* a Wait for a tick no submission has reached has returned, a higher tick
\* recorded before being kept
C22_WaitedBelowRecordedTick ==
    /\ op.name = "Wait" /\ op.outcome = "ok"
    /\ op.tick > current_tick
    /\ gpu_tick > op.tick

\* the most recent operation was a SubmitWork that handed work to the queue
Submitted == op.name = "SubmitWork" /\ op.outcome = "ok" /\ Events("queue.submit") # <<>>

C24_SubmitUnderLockReleasedOnce ==
    (op.name = "SubmitWork" /\ {"lock_queue", "unlock_queue"} \subseteq op.fields)
    => IF Events("queue.submit") # <<>>
       THEN /\ op.outcome \in {"ok", "crash", "throw"}
            /\ CountCalls(trace, "lock_queue") = 1
            /\ CountCalls(trace, "queue.submit") = 1
            /\ CountCalls(trace, "unlock_queue") = 1
            /\ \A l \in Calls(trace, "lock_queue"), q \in Calls(trace, "queue.submit"),
                  u \in Calls(trace, "unlock_queue") :
                  l < q /\ q < u /\ trace[l].obj = trace[u].obj
       ELSE /\ CountCalls(trace, "lock_queue") = 0
            /\ CountCalls(trace, "unlock_queue") = 0

\* a SubmitWork on a host with both callbacks whose submission raised an
\* exception other than device-lost has released the lock and thrown
C24_ThrewAfterUnlock ==
    /\ op.name = "SubmitWork" /\ {"lock_queue", "unlock_queue"} \subseteq op.fields
    /\ op.outcome = "throw"
    /\ CountCalls(trace, "unlock_queue") = 1

\* C25: capability probing degrades instead of failing: if the chained
\* extended-feature query fails, the timeline-semaphore flag is false after
\* probing, and if the external-memory-host property query fails, the
\* external-memory-host flag is false after probing; in both cases
\* construction runs to completion
C25_FailedQueryClearsFlag ==
    (/\ op.name = "Instance"
     /\ vulkan_intf # Null
     /\ ~Lacks(host_device, "gpu_null") /\ ~Lacks(host_device, "queue_null"))
    => /\ Constructed
       /\ Lacks(host_device, "features_query_fails")
             => ~instance.flags.timeline_semaphores
       /\ Lacks(host_device, "memory_query_fails")
             => ~instance.flags.external_memory_host

\* every host callback among the calls tr was made on interface intf
CallbacksOn(tr, intf) ==
    \A i \in 1 .. Len(tr) : tr[i].call \in CallbackFields => tr[i].obj = intf

\* this step is a run of operation `name`, not the host swapping its
\* interface (which leaves op as it was)
Ran(name) == op'.name = name /\ host_intf' = host_intf

\* C26: after every GetRenderFrame call in which the host reports a non-null
\* current interface, vulkan_intf equals that interface and every host
\* callback of the call was made on it; Present and SubmitWork make their
\* callbacks on vulkan_intf and leave it alone, and nothing but a context
\* reset or a GetRenderFrame changes it, so an interface the host has
\* swapped away is not used once a frame has been acquired
C26_AcquiredInterfaceIsUsed ==
    [][/\ (Ran("GetRenderFrame") /\ op'.resolved)
          => /\ vulkan_intf' = host_intf
             /\ CallbacksOn(trace', host_intf)
       /\ (Ran("Present") \/ Ran("SubmitWork"))
          => /\ vulkan_intf' = vulkan_intf
             /\ CallbacksOn(trace', vulkan_intf)
       /\ vulkan_intf' # vulkan_intf
          => /\ op'.name \in {"GetRenderFrame", "VulkanResetContext"}
             /\ vulkan_intf' = host_intf]_vars

\* a GetRenderFrame has replaced a non-null interface by the one the host
\* swapped in and has made a callback on the new one
C26_AcquiredAfterSwap ==
    /\ op.name = "GetRenderFrame" /\ op.resolved
    /\ vulkan_intf = host_intf /\ host_intf = 2
    /\ Events("get_sync_index") # <<>>
    /\ Events("get_sync_index")[1].obj = 2

\* the positions in tr of the calls named in `names`
Positions(tr, names) == {i \in 1 .. Len(tr) : tr[i].call \in names}

\* C27: at most one output image and at most one view of it are live in
\* every state; a CreateOutputTexture call with non-zero dimensions that
\* differ from those of the existing image destroys that image's view and the
\* image before it allocates, and an image that stays keeps its dimensions.
C27_OneOutputImageDestroyedBeforeAllocated ==
    [][/\ Cardinality(device'.images) <= 1
       /\ Cardinality(device'.views) <= 1
       /\ device'.views \subseteq device'.images
       /\ (/\ op'.name = "CreateOutputTexture"
           /\ op'.width # 0 /\ op'.height # 0
           /\ pw.output_image # Null
           /\ (pw.output_width # op'.width \/ pw.output_height # op'.height))
          => /\ \E i \in Positions(trace', {"destroyImageView"}) :
                   trace'[i].obj = pw.output_image_view
             /\ \E i \in Positions(trace', {"vmaDestroyImage"}) :
                   trace'[i].obj = pw.output_image
             /\ Positions(trace', {"vmaCreateImage"}) # {}
             /\ \A i \in Positions(trace', {"destroyImageView", "vmaDestroyImage"}),
                   j \in Positions(trace', {"vmaCreateImage"}) : i < j
       /\ (pw.output_image # Null /\ trace' # trace /\
           Positions(trace', {"vmaDestroyImage"}) = {})
          => /\ pw'.output_image = pw.output_image
             /\ pw'.output_width = pw.output_width
             /\ pw'.output_height = pw.output_height]_vars

C27_ReplacedByOtherSize ==
    /\ op.name = "CreateOutputTexture" /\ op.outcome = "ok"
    /\ Events("vmaDestroyImage") # <<>>
    /\ Events("createImageView") # <<>>
    /\ pw.output_width = op.width /\ pw.output_height = op.height
    /\ Cardinality(device.images) = 1

\* the values field f takes over the frames of pool
Held(pool, f) == {pool[i][f] : i \in 1 .. Len(pool)}

\* C28: after every CreateFrameResources call the pool holds frame_count
\* frames; each references the current output image and view and carries the
\* current output width and height; command buffer, semaphore, fence and
\* framebuffer differ from frame to frame and are the only live ones, those
\* of the pool before the call having been destroyed.
C28_PoolRebuiltOnCurrentTexture ==
    [][(Positions(trace', {"allocateCommandBuffers"}) # {} /\ op'.outcome = "ok")
       => /\ Len(pw'.frame_pool) = frame_count
          /\ \A i \in 1 .. frame_count :
                /\ pw'.frame_pool[i].image = pw'.output_image
                /\ pw'.frame_pool[i].image_view = pw'.output_image_view
                /\ pw'.frame_pool[i].width = pw'.output_width
                /\ pw'.frame_pool[i].height = pw'.output_height
          /\ \A f \in {"cmdbuf", "render_ready", "present_done", "framebuffer"} :
                /\ Cardinality(Held(pw'.frame_pool, f)) = frame_count
                /\ Null \notin Held(pw'.frame_pool, f)
          /\ device'.semaphores = Held(pw'.frame_pool, "render_ready")
          /\ device'.fences = Held(pw'.frame_pool, "present_done")
          /\ device'.framebuffers = Held(pw'.frame_pool, "framebuffer")
          /\ \A i \in 1 .. Len(pw.frame_pool) :
                /\ pw.frame_pool[i].render_ready \notin device'.semaphores \cup {Null}
                /\ pw.frame_pool[i].present_done \notin device'.fences \cup {Null}
                /\ pw.frame_pool[i].framebuffer \notin device'.framebuffers \cup {Null}
                /\ \E j \in Positions(trace', {"destroySemaphore"}) :
                      trace'[j].obj = pw.frame_pool[i].render_ready
                /\ \E j \in Positions(trace', {"destroyFence"}) :
                      trace'[j].obj = pw.frame_pool[i].present_done
                /\ \E j \in Positions(trace', {"destroyFramebuffer"}) :
                      trace'[j].obj = pw.frame_pool[i].framebuffer]_vars

C28_PoolRebuiltOverPreviousPool ==
    /\ op.name = "CreateFrameResources" /\ op.outcome = "ok"
    /\ Len(Events("destroyFence")) = frame_count
    /\ Len(Events("createFence")) = frame_count
    /\ Len(pw.frame_pool) = frame_count
    /\ pw.output_image # Null
    /\ pw.frame_pool[1].image = pw.output_image

\* the calls by which the constructor learns what the device can do
ProbingSteps == {"getProperties", "enumerateDeviceExtensionProperties", "CreateDevice",
                 "ValidateFunctionPointers"}
DetectionSteps == {"CreateDevice", "ValidateFunctionPointers"}

\* the dispatcher is initialized with the device once if the constructor
\* returns and not at all if it throws, and before every call in `steps`
DispatcherInitBefore(steps) ==
    op.name = "Instance"
    => /\ op.outcome = "ok" => Len(Events("dispatcher.init.device")) = 1
       /\ op.outcome = "throw" => Events("dispatcher.init.device") = <<>>
       /\ \A i \in Positions(trace, {"dispatcher.init.device"}),
             j \in Positions(trace, steps) : i < j

C30_FailedSubmitKeepsTick ==
    [][Ran("SubmitWork")
       => /\ (vulkan_intf # Null /\ op'.result = "error")
             => /\ op'.outcome = "throw"
                /\ Positions(trace', {"queue.submit"}) # {}
                /\ gpu_tick' = gpu_tick
          /\ vulkan_intf = Null
             => /\ op'.outcome = "ok"
                /\ Positions(trace', {"cmdbuf.end", "lock_queue", "unlock_queue",
                                      "queue.submit"}) = {}
                /\ gpu_tick' = gpu_tick]_vars

C30_ThrewOnTickBelowSignal ==
    /\ op.name = "SubmitWork" /\ op.result = "error" /\ op.outcome = "throw"
    /\ Events("queue.submit") # <<>>
    /\ op.tick # gpu_tick

\* the multiplier the speed-level table of the documentation gives
TableSpeed(level) ==
    IF level \in 1 .. 9 THEN ((2 + 2 * level) * Fraction) \div 10 ELSE Fraction

\* C31: the speed multiplier Update uses is 0.4, 0.6, ... 2.0 for the levels
\* 1 .. 9 and 1.0 for every other level: an Update that reads the stick
\* pushed fully down, with no deadzone, a linear response and no speed-up,
\* moves the position by (height / 20) times that multiplier.
C31_SpeedTableWithDefaultOne ==
    (/\ Updated /\ settings.analog_touch_enabled
     /\ settings.deadzone = 0 /\ settings.responsecurve = 1
     /\ ~settings.speedup_enabled
     /\ StickRead[1].a = 0 /\ StickRead[1].b = INT16_MAX)
    => /\ RealSpeed(settings.maxspeed) = TableSpeed(settings.maxspeed)
       /\ StickMoved[1].b =
             TruncDiv(TruncDiv(Px(GetHeight(Rect)), 20) * TableSpeed(settings.maxspeed),
                      Fraction)

\* the buttons held during the Update whose source is enabled
EnabledButtons ==
    (IF settings.mouse_touchscreen THEN {"mouse_left"} ELSE {})
    \cup (IF settings.touch_touchscreen THEN {"pointer_pressed"} ELSE {})
    \cup (IF settings.analog_touch_enabled THEN {"r2"} ELSE {})

\* C32: after every Update IsPressed() is true exactly when a button of an
\* enabled source (mouse left with mouse-as-touch, pointer pressed with
\* touch-as-touch, R2 with analog-as-touch) was held during that Update;
\* what a disabled source reports and what IsPressed() was before do not
\* count.
C32_PressedIffEnabledSourcePressed ==
    op.name = "Update" => (tracker.isPressed <=> (op.buttons \cap EnabledButtons # {}))

C32_DisabledSourceHeldNotPressed ==
    /\ op.name = "Update"
    /\ ~settings.mouse_touchscreen /\ settings.touch_touchscreen
    /\ op.buttons = {"mouse_left"}
    /\ ~tracker.isPressed

\* the pointer reading of the most recent Update
PointerSeen == Events("CheckInput.pointer")

\* C33: an Update whose pointer reading rescales to the remembered position
\* or to a position outside the touch-enabled region leaves x and y to the
\* stick: they end where the stick's delta and the clamp alone put them.
\* The pointer path changes the position only otherwise.
C33_StationaryPointerLeavesPosition ==
    [][LET layout == tracker'.framebuffer_layout
           bs == layout.bottom_screen
           ptr == Events("CheckInput.pointer")'[1]
           newX == Rescale(ptr.a, op'.width)
           newY == Rescale(ptr.b, op'.height)
           stick == IF settings.analog_touch_enabled
                    THEN OnMouseMove(tracker, Events("OnMouseMove")'[1].a,
                                     Events("OnMouseMove")'[1].b)
                    ELSE tracker
           alone == Restrict(stick, 0, 0, Px(GetWidth(bs)), Px(GetHeight(bs)))
       IN (/\ op'.name = "Update"
           /\ settings.mouse_touchscreen \/ settings.touch_touchscreen
           /\ \/ newX = tracker.lastMouseX /\ newY = tracker.lastMouseY
              \/ ~IsWithinTouchscreen(layout, settings.render_3d, newX, newY))
          => tracker'.x = alone.x /\ tracker'.y = alone.y]_vars

\* the pointer rests on a point of the touch screen it has reported before
\* while the stick moves the position: it ends further from that point than
\* one delta of the stick, so this Update did not take the pointer's point
C33_StickMovedUnderRestingPointer ==
    /\ op.name = "Update" /\ settings.mouse_touchscreen
    /\ PointerSeen[1].a = 0 /\ PointerSeen[1].b = PointerExtent \div 2
    /\ tracker.lastMouseX = Rescale(PointerSeen[1].a, op.width)
    /\ tracker.lastMouseY = Rescale(PointerSeen[1].b, op.height)
    /\ IsWithinTouchscreen(tracker.framebuffer_layout, settings.render_3d,
                           tracker.lastMouseX, tracker.lastMouseY)
    /\ StickMoved[1].b > 0
    /\ tracker.y > Px(tracker.lastMouseY - Rect.top) + StickMoved[1].b

\* the arguments of the most recent cursor rendering, in whole pixels
CursorX == TruncDiv(op.args.projectedX, Fraction)
CursorY == TruncDiv(op.args.projectedY, Fraction)
CursorRadius == TruncDiv(op.args.renderRatio, Fraction)
CursorRect == op.args.layout.bottom_screen
InRect(x, y) ==
    /\ x >= CursorRect.left /\ x < CursorRect.right
    /\ y >= CursorRect.top /\ y < CursorRect.bottom
InBuffer(x, y) == x >= 0 /\ x < op.width /\ y >= 0 /\ y < op.height
\* the two bars of the cross around the projected position
OnVerticalBar(x, y) ==
    /\ x >= CursorX - TruncDiv(CursorRadius, 5) /\ x < CursorX + TruncDiv(CursorRadius, 5)
    /\ y >= CursorY - CursorRadius /\ y < CursorY + CursorRadius
OnHorizontalBar(x, y) ==
    /\ x >= CursorX - CursorRadius /\ x < CursorX + CursorRadius
    /\ y >= CursorY - TruncDiv(CursorRadius, 5) /\ y < CursorY + TruncDiv(CursorRadius, 5)
\* the frame before the cursor was drawn, and a pixel of it and of the frame
\* after
FrameBefore == FramePixels(op.frame, op.width * op.height)
PixelBefore(x, y) == FrameBefore[y * op.width + x + 1]
PixelAfter(x, y) == pixels[y * op.width + x + 1]

\* C34: after SoftwareCursorRenderer::Render on a buffer, every pixel of the
\* buffer on the cross (on the vertical or the horizontal bar, and inside the
\* target rectangle) holds its previous value XOR 0xFFFFFFFF, and every other
\* pixel holds its previous value.
C34_CrossInvertedRestUnchanged ==
    (op.name = "CursorRender" /\ op.args.data) =>
        \A x \in 0 .. op.width - 1, y \in 0 .. op.height - 1 :
            PixelAfter(x, y) =
                IF InRect(x, y) /\ (OnVerticalBar(x, y) \/ OnHorizontalBar(x, y))
                THEN XorWhite(PixelBefore(x, y))
                ELSE PixelBefore(x, y)

Rendered == op.name \in {"CursorRender", "Render"}

\* C35: every write of a cursor rendering goes to a pixel index within
\* [0, bufferWidth * bufferHeight), the index of a pixel inside both the
\* buffer and the target rectangle, and no other pixel changes; with a null
\* framebuffer pointer, or through a tracker whose cursor is switched off,
\* nothing is written.
C35_WritesInsideBufferAndRectangle ==
    Rendered =>
        /\ \A k \in 1 .. Len(trace) :
              /\ trace[k].call = "pixels.xor"
              /\ trace[k].obj >= 0 /\ trace[k].obj < op.width * op.height
              /\ trace[k].obj = trace[k].b * op.width + trace[k].a
              /\ InBuffer(trace[k].a, trace[k].b)
              /\ InRect(trace[k].a, trace[k].b)
        /\ op.args.data =>
              \A i \in 1 .. op.width * op.height :
                 pixels[i] # FrameBefore[i] => \E k \in 1 .. Len(trace) : trace[k].obj = i - 1
        /\ ~op.args.data => trace = <<>> /\ pixels = <<>>
        /\ (op.name = "Render" /\ ~settings.render_touchscreen)
              => trace = <<>> /\ (op.args.data => pixels = FrameBefore)

\* a cross that reaches past the buffer's last column inside a rectangle
\* that does so too has been drawn
C35_CrossCutAtBufferEdge ==
    /\ op.name = "CursorRender" /\ op.args.data
    /\ CursorRect.right > op.width
    /\ CursorX < op.width /\ CursorX + CursorRadius > op.width
    /\ \E k \in 1 .. Len(trace) : trace[k].a = op.width - 1

\* the present-done fences of the frames in the pool
PoolFences(w) == {w.frame_pool[i].present_done : i \in 1 .. Len(w.frame_pool)}

\* the fences a waitForFences call e of operation name waits for, in the pool
\* the operation started on: WaitPresent collects every frame's fence,
\* RecreateFrame passes the fence of its frame
Waited(name, e) == IF name = "WaitPresent" THEN PoolFences(pw) ELSE {e.obj}

\* C36: every present-done fence in the frame pool is signaled after every
\* operation; no operation resets a fence or passes one to a queue submission
\* (the submission's fence is null); and every fence that WaitPresent or
\* RecreateFrame waits for is signaled when the wait starts, so the wait
\* returns without waiting on GPU work
C36_PresentDoneFencesStaySignaled ==
    [][/\ PoolFences(pw') \subseteq device'.signaled
       /\ \A k \in 1 .. Len(trace') :
             /\ trace'[k].call # "resetFences"
             /\ trace'[k].call = "queue.submit" => trace'[k].obj = Null
             /\ trace'[k].call = "waitForFences" =>
                   /\ Waited(op'.name, trace'[k]) # {}
                   /\ Waited(op'.name, trace'[k]) \subseteq device.signaled]_vars

\* a resize waits for its frame's fence after work was submitted at the
\* current tick, and the new pool's fences are signaled
C36_ResizeWaitsAfterSubmit ==
    /\ op.name = "RecreateFrame"
    /\ op.outcome = "ok"
    /\ Events("waitForFences") # <<>>
    /\ gpu_tick = current_tick
    /\ pw.frame_pool # <<>>
    /\ PoolFences(pw) \subseteq device.signaled

\* C37: whenever the frame pool is non-empty, every frame record's image and
\* image view are the live output image and view and its width and height
\* are the stored output dimensions; no frame record refers to a destroyed
\* image or view
C37_FramesReferToLiveOutput ==
    (status = "ready" /\ pw.frame_pool # <<>>) =>
       \A i \in 1 .. Len(pw.frame_pool) :
          /\ pw.frame_pool[i].image = pw.output_image
          /\ pw.frame_pool[i].image_view = pw.output_image_view
          /\ pw.frame_pool[i].image \in device.images
          /\ pw.frame_pool[i].image_view \in device.views
          /\ pw.frame_pool[i].width = pw.output_width
          /\ pw.frame_pool[i].height = pw.output_height

\* every thread that called Wait has returned from it
AllReturned(w) == \A th \in Threads : w[th].pc = "returned"

\* the largest tick passed to Wait by the threads
MaxWaited(w) == Max(w[1].tick, w[2].tick)

\* C38: with two threads running Wait(t1) and Wait(t2) concurrently, also
\* concurrently with SubmitWork and Refresh, no step of any interleaving of
\* their loads and stores lowers the completed-tick counter, and once both
\* calls of Wait have returned the counter is at least max(t1, t2)
C38_ConcurrentWaitsKeepMaximum ==
    [][/\ gpu_tick' >= gpu_tick
       /\ (AllReturned(waits') /\ ~AllReturned(waits)) => gpu_tick' >= MaxWaited(waits')]_vars

\* C39: after every Update on a target rectangle of non-zero width and
\* height, the position GetPressedPosition() returns lies inside the
\* half-open region IsWithinTouchscreen accepts: rect.left <= px < rect.right
\* and rect.top <= py < rect.bottom
C39_PressedPositionInsideTouchRegion ==
    Updated => LET pos == GetPressedPosition(tracker)
               IN /\ Rect.left <= pos[1] /\ pos[1] < Rect.right
                  /\ Rect.top <= pos[2] /\ pos[2] < Rect.bottom

(* --------------------------- specifications ---------------------------- *)

InitAdapter ==
    /\ instance = NoInstance
    /\ host_intf = 1
    /\ queue_family_index = 0
    /\ vulkan_intf = Null
    /\ status = "none"
    /\ pw = EmptyWindow
    /\ device = EmptyDevice
    /\ gpu_tick = 0
    /\ current_tick = InitialTick
    /\ pixels = <<>>
    /\ waits = [th \in Threads |-> NotCalled]
    /\ trace = <<>>
    /\ op = NoOp

\* the adapter beside a tracker whose storage was zeroed and whose settings
\* are the pointer-only ones
InitCommon ==
    /\ InitAdapter
    /\ tracker = [x |-> 0, y |-> 0, lastMouseX |-> 0, lastMouseY |-> 0,
                  projectedX |-> 0, projectedY |-> 0, renderRatio |-> 0,
                  isPressed |-> FALSE, framebuffer_layout |-> NoLayout,
                  cursor_renderer |-> "Vulkan"]
    /\ settings = CoreSettings(TRUE, FALSE, FALSE, "Off", DefaultDeadzone, 0, 1, FALSE)

\* the window with the operations its users call, on a host that keeps
\* handing out the interface of the context reset
Init == InitCommon /\ host_device = FullHost

Next ==
    \/ VulkanResetContext
    \/ InstanceStep
    \/ ConstructStep
    \/ GetRenderFrameStep
    \/ RecreateFrameStep
    \/ PresentStep
    \/ WaitPresentStep
    \/ DestructStep

Spec == Init /\ [][Next]_vars

\* the window with its private methods called directly, as a unit test of
\* the class calls them
NextUnit ==
    \/ VulkanResetContext
    \/ InstanceStep
    \/ ConstructStep
    \/ DestructStep
    \/ CreateOutputTextureStep
    \/ DestroyOutputTextureStep
    \/ CreateFrameResourcesStep

SpecUnit == Init /\ [][NextUnit]_vars

\* the window on a host that swaps or withdraws its interface at any time
NextHost ==
    \/ HostSwapInterface
    \/ VulkanResetContext
    \/ InstanceStep
    \/ ConstructStep
    \/ GetRenderFrameStep
    \/ PresentStep
    \/ DestructStep

SpecHost == Init /\ [][NextHost]_vars

\* the frame loop on a host that swaps or withdraws its interface at any
\* time: frames are acquired, presented, and work is submitted
NextLoop ==
    \/ HostSwapInterface
    \/ VulkanResetContext
    \/ InstanceStep
    \/ ConstructStep
    \/ GetRenderFrameStep
    \/ PresentStep
    \/ SubmitWorkStep

SpecLoop == Init /\ [][NextLoop]_vars

\* instance construction on every host with at most MaxDefects defects
InitInst == InitCommon /\ host_device \in Hosts

NextInst ==
    \/ VulkanResetContext
    \/ InstanceStep

SpecInst == InitInst /\ [][NextInst]_vars

\* the semaphore
InitSem == InitCommon /\ host_device = FullHost

NextSem ==
    \/ HostSwapInterface
    \/ VulkanResetContext
    \/ NextTick
    \/ RefreshStep
    \/ WaitStep
    \/ SubmitWorkStep

SpecSem == InitSem /\ [][NextSem]_vars

\* SubmitWork as the frame loop calls it: the frame's command buffer, waiting
\* on and signalling the timeline semaphore at the current tick
SubmitFrameStep ==
    /\ Alive
    /\ \E result \in {"ok", "error"} :
          CommitSem(SubmitWork(gpu_tick, vulkan_intf, IntfFields, 1, 1, current_tick,
                               result),
                    [NoOp EXCEPT !.name = "SubmitWork", !.tick = current_tick,
                                 !.fields = IntfFields, !.result = result,
                                 !.wait = 1, !.signal = 1])

\* a thread enters Wait(tick) and loads the counter
WaitLoadStep ==
    /\ Alive
    /\ \E th \in Threads, tick \in Ticks :
          /\ waits[th].pc = "idle"
          /\ waits' = [waits EXCEPT ![th] = WaitLoad(gpu_tick, tick)]
          /\ trace' = <<>>
          /\ op' = [NoOp EXCEPT !.name = "Wait.load", !.tick = tick, !.frame = th,
                                !.outcome = "ok"]
    /\ UNCHANGED <<host_device, instance, host_intf, vulkan_intf, queue_family_index,
                   status, pw, device, gpu_tick, current_tick, tracker, settings, pixels>>

\* a thread inside Wait stores the maximum it computed and returns
WaitStoreStep ==
    /\ Alive
    /\ \E th \in Threads :
          /\ waits[th].pc = "loaded"
          /\ LET r == WaitStore(waits[th])
             IN /\ gpu_tick' = r.gpu_tick
                /\ trace' = r.tr
                /\ op' = [NoOp EXCEPT !.name = "Wait.store", !.tick = waits[th].tick,
                                      !.frame = th, !.outcome = r.outcome]
          /\ waits' = [waits EXCEPT ![th].pc = "returned"]
    /\ UNCHANGED <<host_device, instance, host_intf, vulkan_intf, queue_family_index,
                   status, pw, device, current_tick, tracker, settings, pixels>>

\* two threads calling Wait while the submission thread refreshes and submits
InitRace == InitCommon /\ host_device = FullHost

NextRace ==
    \/ VulkanResetContext
    \/ WaitLoadStep
    \/ WaitStoreStep
    \/ RefreshStep
    \/ SubmitFrameStep

SpecRace == InitRace /\ [][NextRace]_vars

\* the frame loop with resizes: frames are acquired, resized, presented and
\* waited for while work is submitted
NextFence ==
    \/ VulkanResetContext
    \/ InstanceStep
    \/ ConstructStep
    \/ GetRenderFrameStep
    \/ RecreateFrameStep
    \/ PresentStep
    \/ WaitPresentStep
    \/ SubmitFrameStep

SpecFence == Init /\ [][NextFence]_vars

\* the pointer tracker under every choice of settings, fed a frame at a time
\* Update driven by the stick alone
StickUpdateStep ==
    /\ Alive
    /\ \E layout \in Layouts, in \in StickInputs :
          /\ tracker.framebuffer_layout \in {NoLayout, layout}
          /\ LET r == Update(tracker, settings, layout.width, layout.height, layout, in)
             IN /\ tracker' = r.tracker
                /\ trace' = r.tr
                /\ op' = [NoOp EXCEPT !.name = "Update", !.width = layout.width,
                                      !.height = layout.height, !.outcome = "ok"]
    /\ UNCHANGED <<host_device, instance, host_intf, vulkan_intf, queue_family_index,
                   status, pw, device, gpu_tick, current_tick, settings, pixels, waits>>

\* Update driven by the buttons alone; op keeps the buttons that were held
ButtonUpdateStep ==
    /\ Alive
    /\ \E layout \in Layouts, in \in ButtonInputs :
          /\ tracker.framebuffer_layout \in {NoLayout, layout}
          /\ LET r == Update(tracker, settings, layout.width, layout.height, layout, in)
             IN /\ tracker' = r.tracker
                /\ trace' = r.tr
                /\ op' = [NoOp EXCEPT !.name = "Update", !.width = layout.width,
                                      !.height = layout.height, !.outcome = "ok",
                                      !.buttons = in.buttons]
    /\ UNCHANGED <<host_device, instance, host_intf, vulkan_intf, queue_family_index,
                   status, pw, device, gpu_tick, current_tick, settings, pixels, waits>>

\* Update driven by the pointer and the stick together
MixedUpdateStep ==
    /\ Alive
    /\ \E layout \in Layouts, in \in MixedInputs :
          /\ tracker.framebuffer_layout \in {NoLayout, layout}
          /\ LET r == Update(tracker, settings, layout.width, layout.height, layout, in)
             IN /\ tracker' = r.tracker
                /\ trace' = r.tr
                /\ op' = [NoOp EXCEPT !.name = "Update", !.width = layout.width,
                                      !.height = layout.height, !.outcome = "ok"]
    /\ UNCHANGED <<host_device, instance, host_intf, vulkan_intf, queue_family_index,
                   status, pw, device, gpu_tick, current_tick, settings, pixels, waits>>

\* the tracker with a pointer and the stick enabled at once
InitMixed ==
    /\ InitAdapter
    /\ host_device = FullHost
    /\ tracker \in NewTrackers
    /\ settings \in MixedSettings

NextMixed == MixedUpdateStep

SpecMixed == InitMixed /\ [][NextMixed]_vars

\* SoftwareCursorRenderer::Render called on a small buffer with arguments of
\* the caller's choice
CursorRenderStep ==
    /\ Alive
    /\ \E data \in BOOLEAN, layout \in CursorLayouts,
          centre \in CursorCentres, ratio \in CursorRatios :
          LET id == 1
              before == IF data THEN FramePixels(id, layout.width * layout.height)
                        ELSE <<>>
              r == SoftwareRender(before, data, layout.width, layout.height,
                                  centre[1], centre[2], ratio, layout)
          IN /\ pixels' = r.pixels
             /\ trace' = r.tr
             /\ op' = [NoOp EXCEPT !.name = "CursorRender", !.width = layout.width,
                                   !.height = layout.height, !.frame = id,
                                   !.outcome = "ok",
                                   !.args = [data |-> data, projectedX |-> centre[1],
                                             projectedY |-> centre[2],
                                             renderRatio |-> ratio, layout |-> layout,
                                             enabled |-> TRUE]]
    /\ UNCHANGED <<host_device, instance, host_intf, vulkan_intf, queue_family_index,
                   status, pw, device, gpu_tick, current_tick, tracker, settings, waits>>

\* MouseTracker::Render on a small buffer
TrackerRenderStep ==
    /\ Alive
    /\ \E data \in BOOLEAN, id \in FrameIds :
          LET before == IF data THEN FramePixels(id, MaxBuffer * (MaxBuffer - 2))
                        ELSE <<>>
              r == TrackerRender(tracker, settings, before, data, MaxBuffer,
                                 MaxBuffer - 2)
          IN /\ pixels' = r.pixels
             /\ trace' = r.tr
             /\ op' = [NoOp EXCEPT !.name = "Render", !.width = MaxBuffer,
                                   !.height = MaxBuffer - 2, !.frame = id,
                                   !.outcome = "ok",
                                   !.args = [data |-> data,
                                             projectedX |-> tracker.projectedX,
                                             projectedY |-> tracker.projectedY,
                                             renderRatio |-> tracker.renderRatio,
                                             layout |-> tracker.framebuffer_layout,
                                             enabled |->
                                                settings.render_touchscreen /\
                                                tracker.cursor_renderer = "Software"]]
    /\ UNCHANGED <<host_device, instance, host_intf, vulkan_intf, queue_family_index,
                   status, pw, device, gpu_tick, current_tick, tracker, settings, waits>>

\* a tracker in zeroed storage with each renderer, its cursor switched on or
\* off, and the software renderer on its own
InitCursor ==
    /\ InitAdapter
    /\ host_device = FullHost
    /\ tracker \in {[t EXCEPT !.cursor_renderer = r] :
                        t \in {n \in NewTrackers : n.x = 0}, r \in Renderers}
    /\ settings \in {[CoreSettings(TRUE, FALSE, FALSE, "Off", DefaultDeadzone, 0, 1, FALSE)
                         EXCEPT !.render_touchscreen = b] : b \in BOOLEAN}

NextCursor ==
    \/ StickUpdateStep
    \/ CursorRenderStep
    \/ TrackerRenderStep

SpecCursor == InitCursor /\ [][NextCursor]_vars

\* the tracker under every speed level, moved by the stick
InitSpeed ==
    /\ InitAdapter
    /\ host_device = FullHost
    /\ tracker \in NewTrackers
    /\ settings \in SpeedSettings

NextSpeed == StickUpdateStep

SpecSpeed == InitSpeed /\ [][NextSpeed]_vars

InitMouse ==
    /\ InitAdapter
    /\ host_device = FullHost
    /\ tracker \in NewTrackers
    /\ settings \in SettingsChoices

NextMouse == MouseUpdateStep

SpecMouse == InitMouse /\ [][NextMouse]_vars

\* the tracker under every choice of sources, with buttons held and released
NextPress == ButtonUpdateStep

SpecPress == InitMouse /\ [][NextPress]_vars

====
